---------------------------- MODULE Spec2Model ----------------------------
(***************************************************************************)
(* A model of the sorterpy client (src/src/sorterpy/sorterpy.py): the      *)
(* client's option set, the operations that issue HTTP requests, the       *)
(* requests they send and the value objects they build from the answers.   *)
(*                                                                         *)
(* Every client operation is a short sequence of steps: the call validates *)
(* its arguments and sends a request (or raises), and a later step handles *)
(* the server's answer.  The option set is the one mutable resource shared *)
(* by the client, its tags and its items, so options() may run between the *)
(* two steps.                                                              *)
(*                                                                         *)
(* Python values: None is the empty sequence, a present value v is <<v>>   *)
(* (a dict's d.get(k) is None when k is absent).                           *)
(***************************************************************************)
EXTENDS Integers, Sequences, FiniteSets, TLC

VARIABLES
    options,      \* Sorter._options: vote_magnitude, verbose, quiet
    pc,           \* where the client stands: "idle", waiting for an answer, or
                  \* "done" (the operation returns or raises to its caller)
    call,         \* the operation in progress, with its arguments
    sent,         \* the HTTP requests the operation has sent, in order
    replies,      \* the status of the answer to each request of sent
    result,       \* what the operation returns or raises
    prev,         \* the call that returned last, if it was a get-or-create
    server_tags,  \* the server's tags, in creation order
    server_items, \* the server's items of tag 1, in creation order
    server_votes, \* the server's votes of tag 1, as they were recorded
    log_level     \* the level the logger was last added with

vars ==
    <<options, pc, call, sent, replies, result, prev, server_tags, server_items,
      server_votes, log_level>>

-----------------------------------------------------------------------------
(* Bounds of the model and constants of the program *)

\* how far beyond each end of a magnitude range the inputs reach
Margin == 1

\* the server refuses to create more tags than this
MaxTags == 2

\* the longest pair list a rankings response carries
MaxPair == 3

\* the server refuses to create more items than this
MaxItems == 2

\* the longest list of attributes the server answers with
MaxAttributes == 2

\* the most votes the server holds for the tag
MaxVotes == 1

\* the longest version string a health answer names
MaxVersionLen == 5

\* DEFAULT_COMPATIBLE_VERSIONS = ["2"]
DefaultCompatibleVersion == <<"2">>

\* if response.status_code == 200
HealthOk == 200

\* magnitude + 50 / magnitude - 50
MagOffset == 50

\* -50 <= magnitude <= 50
EqualMin == -50
EqualMax == 50

\* 0 <= magnitude <= 100
PositiveMin == 0
PositiveMax == 100

\* attribute_id = 0  # Default attribute ID is 0
DefaultAttribute == 0

\* logger.add(sys.stderr, format=LOGGER_FORMAT, level="INFO") at import
DefaultLogLevel == "INFO"

-----------------------------------------------------------------------------
(* Python values *)

None == <<>>
Some(v) == <<v>>
Get(opt) == opt[1]

Raise(exc) == [kind |-> "raise", exc |-> exc]
NoResult == [kind |-> "none"]
NoCall == [op |-> "none"]
NoPrev == [valid |-> FALSE]

\* if s: on an optional string, None and the empty string are both false
Truthy(opt) == opt # None /\ Get(opt) # <<>>

RECURSIVE SeqsUpTo(_, _)
SeqsUpTo(S, n) ==
    IF n = 0 THEN {<<>>}
    ELSE SeqsUpTo(S, n - 1) \cup
         {Append(q, x) : q \in {r \in SeqsUpTo(S, n - 1) : Len(r) = n - 1}, x \in S}

Scales == {"equal", "positive"}

\* vote magnitudes: each end of the two ranges and the integers up to Margin
\* beyond it
MagnitudeInputs ==
    UNION { {EqualMin - k, EqualMax + k, PositiveMin - k, PositiveMax + k} : k \in 0..Margin }

\* every integer from below the "equal" range to above the "positive" range
AllMagnitudes == (EqualMin - Margin)..(PositiveMax + Margin)

StatusInputs == {200, 404, 500}

-----------------------------------------------------------------------------
(* Sorter: options and magnitude conversion *)

DefaultOptions == [vote_magnitude |-> "equal", verbose |-> FALSE, quiet |-> FALSE]

\* the keyword arguments of one options() call: a value for some of the keys
OptionKwargs ==
    { [vote_magnitude |-> s, verbose |-> v, quiet |-> q] :
        s \in {None} \cup {Some(x) : x \in Scales},
        v \in {None} \cup {Some(x) : x \in BOOLEAN},
        q \in {None} \cup {Some(x) : x \in BOOLEAN} }

OptionsUpdate(opts, kwargs) ==
    [ vote_magnitude |-> IF kwargs.vote_magnitude = None THEN opts.vote_magnitude
                         ELSE Get(kwargs.vote_magnitude),
      verbose |-> IF kwargs.verbose = None THEN opts.verbose ELSE Get(kwargs.verbose),
      quiet |-> IF kwargs.quiet = None THEN opts.quiet ELSE Get(kwargs.quiet) ]

\* variant: the offset of the "equal" scale is not added
convert_magnitude_to_backend_identity(opts, magnitude) == magnitude

convert_magnitude_to_backend(opts, magnitude) ==
    IF opts.vote_magnitude = "equal" THEN magnitude + MagOffset ELSE magnitude

\* variant: the offset is taken off under either scale
convert_magnitude_from_backend_always_offset(opts, magnitude) ==
    IF magnitude = None THEN Raise("TypeError")
    ELSE [kind |-> "int", value |-> Some(Get(magnitude) - MagOffset)]

\* variant: the offset of the "equal" scale is not taken off
convert_magnitude_from_backend_identity(opts, magnitude) ==
    [kind |-> "int", value |-> magnitude]

\* magnitude is data.get("magnitude"): None - 50 is a TypeError
convert_magnitude_from_backend(opts, magnitude) ==
    IF opts.vote_magnitude = "equal"
    THEN IF magnitude = None THEN Raise("TypeError")
         ELSE [kind |-> "int", value |-> Some(Get(magnitude) - MagOffset)]
    ELSE [kind |-> "int", value |-> magnitude]

\* variant: verbose takes precedence over quiet
ConfigureLoggingVerboseFirst(opts) ==
    IF opts.verbose THEN "DEBUG" ELSE IF opts.quiet THEN "WARNING" ELSE "INFO"

\* Sorter._configure_logging: the level the logger is added with
ConfigureLogging(opts) ==
    IF opts.quiet THEN "WARNING" ELSE IF opts.verbose THEN "DEBUG" ELSE "INFO"

-----------------------------------------------------------------------------
(* Sorter._request: the answer to a request, as the caller sees it *)

IsSuccess(status) == status \div 100 = 2

\* variant: an error answer never raises
RequestQuietAlways(opts, status, data) ==
    [kind |-> "ok", data |-> IF IsSuccess(status) THEN data ELSE None]

\* data is the JSON body of the answer; the empty dict {} is None here
Request(opts, status, data) ==
    IF IsSuccess(status) THEN [kind |-> "ok", data |-> data]
    ELSE IF ~opts.quiet THEN Raise("HTTPStatusError")
    ELSE [kind |-> "ok", data |-> None]

-----------------------------------------------------------------------------
(* Argument values of vote(): Items, ints, Attributes, None, anything else *)

ItemVal(id, tag) == [type |-> "Item", id |-> id, tag |-> tag]
IntVal(n) == [type |-> "int", val |-> n]
AttributeVal(id) == [type |-> "Attribute", id |-> id]
StrVal == [type |-> "str"]
NoneVal == [type |-> "None"]

IsItem(v) == v.type = "Item"
IsInt(v) == v.type = "int"

\* the tags and items the votes are about: items 1 and 2 belong to tag 1,
\* item 3 to tag 2
TagIds == {1, 2}
LeftInputs == {ItemVal(1, 1), ItemVal(3, 2), StrVal}
PositionalInputs ==
    {ItemVal(2, 1), ItemVal(3, 2), StrVal} \cup {IntVal(n) : n \in MagnitudeInputs}
AttributeInputs == {NoneVal, IntVal(7), AttributeVal(3), StrVal}

-----------------------------------------------------------------------------
(* Tag.vote and Sorter.vote up to the request: a raise, or the payload *)

\* variant: only the first ordering is accepted
ParameterOrderFirstOnly(x, y) ==
    IF IsInt(x) /\ IsItem(y) THEN 1 ELSE 0

\* 1: vote(left, magnitude, right); 2: vote(left, right, magnitude); 0: neither
ParameterOrder(x, y) ==
    IF IsInt(x) /\ IsItem(y) THEN 1
    ELSE IF IsItem(x) /\ IsInt(y) THEN 2
    ELSE 0

OrderedMagnitude(x, y) == IF ParameterOrder(x, y) = 1 THEN x.val ELSE y.val
OrderedRightItem(x, y) == IF ParameterOrder(x, y) = 1 THEN y ELSE x

\* variant: another default attribute id
AttributeIdDefaultOne(attribute) ==
    IF attribute.type = "None" THEN [kind |-> "int", value |-> DefaultAttribute + 1]
    ELSE IF attribute.type = "Attribute" THEN [kind |-> "int", value |-> attribute.id]
    ELSE IF attribute.type = "int" THEN [kind |-> "int", value |-> attribute.val]
    ELSE Raise("TypeError")

AttributeId(attribute) ==
    IF attribute.type = "None" THEN [kind |-> "int", value |-> DefaultAttribute]
    ELSE IF attribute.type = "Attribute" THEN [kind |-> "int", value |-> attribute.id]
    ELSE IF attribute.type = "int" THEN [kind |-> "int", value |-> attribute.val]
    ELSE Raise("TypeError")

VotePayload(left, right, backend_magnitude, tag_id, attribute_id) ==
    [ left_item_id |-> left.id, right_item_id |-> right.id,
      magnitude |-> backend_magnitude, tag_id |-> tag_id, attribute |-> attribute_id ]

VoteRequest(payload) ==
    [kind |-> "send", method |-> "POST", path |-> "/api/vote", json |-> payload]

\* variant: the range of the "equal" scale is checked under either scale
TagVoteMagnitudeEqualRangeOnly(opts, magnitude) ==
    IF ~(EqualMin <= magnitude /\ magnitude <= EqualMax) THEN Raise("ValueError")
    ELSE [kind |-> "int", value |-> convert_magnitude_to_backend(opts, magnitude)]

\* variant: quiet mode switches the range check off
TagVoteMagnitudeQuietUnchecked(opts, magnitude) ==
    IF opts.quiet
    THEN [kind |-> "int", value |-> convert_magnitude_to_backend(opts, magnitude)]
    ELSE IF opts.vote_magnitude = "equal"
    THEN IF ~(EqualMin <= magnitude /\ magnitude <= EqualMax) THEN Raise("ValueError")
         ELSE [kind |-> "int", value |-> convert_magnitude_to_backend(opts, magnitude)]
    ELSE IF ~(PositiveMin <= magnitude /\ magnitude <= PositiveMax) THEN Raise("ValueError")
         ELSE [kind |-> "int", value |-> magnitude]

\* variant: the scale is the one the client was created with by default
TagVoteMagnitudeCreationScale(opts, magnitude) ==
    IF DefaultOptions.vote_magnitude = "equal"
    THEN IF ~(EqualMin <= magnitude /\ magnitude <= EqualMax) THEN Raise("ValueError")
         ELSE [kind |-> "int", value |-> magnitude + MagOffset]
    ELSE IF ~(PositiveMin <= magnitude /\ magnitude <= PositiveMax) THEN Raise("ValueError")
         ELSE [kind |-> "int", value |-> magnitude]

\* Tag.vote: "Validate magnitude based on scale"
TagVoteMagnitude(opts, magnitude) ==
    IF opts.vote_magnitude = "equal"
    THEN IF ~(EqualMin <= magnitude /\ magnitude <= EqualMax) THEN Raise("ValueError")
         ELSE [kind |-> "int", value |-> convert_magnitude_to_backend(opts, magnitude)]
    ELSE IF ~(PositiveMin <= magnitude /\ magnitude <= PositiveMax) THEN Raise("ValueError")
         ELSE [kind |-> "int", value |-> magnitude]

\* variant: no range check
SorterVoteMagnitudeUnchecked(opts, magnitude) ==
    [kind |-> "int", value |-> convert_magnitude_to_backend(opts, magnitude)]

\* Sorter.vote: "Validate magnitude based on scale"
SorterVoteMagnitude(opts, magnitude) ==
    IF opts.vote_magnitude = "equal"
    THEN IF ~(EqualMin <= magnitude /\ magnitude <= EqualMax) THEN Raise("ValueError")
         ELSE [kind |-> "int", value |-> convert_magnitude_to_backend(opts, magnitude)]
    ELSE IF ~(PositiveMin <= magnitude /\ magnitude <= PositiveMax) THEN Raise("ValueError")
         ELSE [kind |-> "int", value |-> magnitude]

\* Tag.vote of the tag with id self_id, up to self.client._request
TagVote(opts, self_id, left, x, y, attribute) ==
    IF ParameterOrder(x, y) = 0 THEN Raise("TypeError")
    ELSE IF ~IsItem(left) THEN Raise("AttributeError")     \* left_item.tag
    ELSE IF left.tag # self_id \/ OrderedRightItem(x, y).tag # self_id
         THEN Raise("ValueError")
    ELSE IF TagVoteMagnitude(opts, OrderedMagnitude(x, y)).kind = "raise"
         THEN TagVoteMagnitude(opts, OrderedMagnitude(x, y))
    ELSE IF AttributeId(attribute).kind = "raise" THEN AttributeId(attribute)
    ELSE VoteRequest(VotePayload(left, OrderedRightItem(x, y),
                                 TagVoteMagnitude(opts, OrderedMagnitude(x, y)).value,
                                 self_id, AttributeId(attribute).value))

\* variant: the two items may belong to different tags
SorterVoteNoTagCheck(opts, left, x, y, attribute) ==
    IF ParameterOrder(x, y) = 0 THEN Raise("TypeError")
    ELSE IF ~IsItem(left) THEN Raise("AttributeError")
    ELSE IF SorterVoteMagnitude(opts, OrderedMagnitude(x, y)).kind = "raise"
         THEN SorterVoteMagnitude(opts, OrderedMagnitude(x, y))
    ELSE IF AttributeId(attribute).kind = "raise" THEN AttributeId(attribute)
    ELSE VoteRequest(VotePayload(left, OrderedRightItem(x, y),
                                 SorterVoteMagnitude(opts, OrderedMagnitude(x, y)).value,
                                 left.tag, AttributeId(attribute).value))

\* variant: the attribute is checked before the magnitude
SorterVoteAttributeFirst(opts, left, x, y, attribute) ==
    IF ParameterOrder(x, y) = 0 THEN Raise("TypeError")
    ELSE IF ~IsItem(left) THEN Raise("AttributeError")
    ELSE IF left.tag # OrderedRightItem(x, y).tag THEN Raise("ValueError")
    ELSE IF AttributeId(attribute).kind = "raise" THEN AttributeId(attribute)
    ELSE IF SorterVoteMagnitude(opts, OrderedMagnitude(x, y)).kind = "raise"
         THEN SorterVoteMagnitude(opts, OrderedMagnitude(x, y))
    ELSE VoteRequest(VotePayload(left, OrderedRightItem(x, y),
                                 SorterVoteMagnitude(opts, OrderedMagnitude(x, y)).value,
                                 left.tag, AttributeId(attribute).value))

\* Sorter.vote, up to self._request
SorterVote(opts, left, x, y, attribute) ==
    IF ParameterOrder(x, y) = 0 THEN Raise("TypeError")
    ELSE IF ~IsItem(left) THEN Raise("AttributeError")     \* left_item.tag
    ELSE IF left.tag # OrderedRightItem(x, y).tag THEN Raise("ValueError")
    ELSE IF SorterVoteMagnitude(opts, OrderedMagnitude(x, y)).kind = "raise"
         THEN SorterVoteMagnitude(opts, OrderedMagnitude(x, y))
    ELSE IF AttributeId(attribute).kind = "raise" THEN AttributeId(attribute)
    ELSE VoteRequest(VotePayload(left, OrderedRightItem(x, y),
                                 SorterVoteMagnitude(opts, OrderedMagnitude(x, y)).value,
                                 left.tag, AttributeId(attribute).value))

-----------------------------------------------------------------------------
(* Vote.__init__: the Vote built from the answer's data *)

\* the data of an answer to POST /api/vote: the dict {} (None) or a dict
\* with some of the keys
VoteData(id, left, right, magnitude, attribute) ==
    Some([id |-> id, left_item_id |-> left, right_item_id |-> right,
          magnitude |-> magnitude, attribute |-> attribute])

DataGet(data, key) == IF data = None THEN None ELSE Get(data)[key]

VoteInit(opts, data) ==
    IF convert_magnitude_from_backend(opts, DataGet(data, "magnitude")).kind = "raise"
    THEN convert_magnitude_from_backend(opts, DataGet(data, "magnitude"))
    ELSE [ kind |-> "Vote",
           id |-> DataGet(data, "id"),
           left_item_id |-> DataGet(data, "left_item_id"),
           right_item_id |-> DataGet(data, "right_item_id"),
           magnitude |-> convert_magnitude_from_backend(opts, DataGet(data, "magnitude")).value,
           attribute |-> IF DataGet(data, "attribute") = None THEN Some(DefaultAttribute)
                         ELSE DataGet(data, "attribute") ]

\* what the server may answer to a vote request: the stored vote echoed, the
\* vote with another magnitude, or a body that leaves keys out
VoteAnswers(payload) ==
    { VoteData(Some(1), Some(payload.left_item_id), Some(payload.right_item_id), m, a) :
        m \in {None, Some(payload.magnitude), Some(75)},
        a \in {None, Some(payload.attribute)} }

-----------------------------------------------------------------------------
(* Tag.votes: the filters of GET /api/vote and the votes listed            *)

\* if attribute: None and 0 are both false
TruthyInt(opt) == opt # None /\ Get(opt) # 0

\* params of Tag.votes: a key that is not set is None here
VotesParams(tag_id, until, attribute, user, since) ==
    [ tag |-> tag_id,
      until |-> IF Truthy(until) THEN until ELSE None,
      attribute |-> IF TruthyInt(attribute) THEN attribute ELSE None,
      user |-> IF Truthy(user) THEN user ELSE None,
      since |-> IF Truthy(since) THEN since ELSE None ]

VotesRequest(params) ==
    [kind |-> "send", method |-> "GET", path |-> "/api/vote", params |-> params]

\* the filters a caller may give
VotesStringInputs == { None, Some(<<"t">>) }
VotesAttributeInputs == { None, Some(DefaultAttribute), Some(7) }

\* [Vote(self, vote_data) for vote_data in response.get("votes", [])]
VotesInit(opts, datas) ==
    IF \E i \in 1..Len(datas) : VoteInit(opts, datas[i]).kind = "raise"
    THEN Raise("TypeError")
    ELSE [kind |-> "Votes", votes |-> [i \in 1..Len(datas) |-> VoteInit(opts, datas[i])]]

\* a vote the server holds: the payload of the POST /api/vote that recorded
\* it, with the magnitude and scale the caller of Tag.vote used
RecordedVote(scale, magnitude, attribute) ==
    [ payload |-> TagVote([DefaultOptions EXCEPT !.vote_magnitude = scale], 1,
                          ItemVal(1, 1), IntVal(magnitude), ItemVal(2, 1), attribute).json,
      scale |-> scale, given |-> magnitude ]

\* the votes of tag 1 the server may hold: up to MaxVotes votes that
\* Tag.vote recorded, under either scale, with a magnitude of its range
ServerVotesInputs ==
    SeqsUpTo({ RecordedVote(scale, magnitude, attribute) :
                 scale \in {"equal"}, magnitude \in {m \in MagnitudeInputs : EqualMin <= m /\ m <= EqualMax},
                 attribute \in {NoneVal, IntVal(7)} }
             \cup
             { RecordedVote(scale, magnitude, attribute) :
                 scale \in {"positive"}, magnitude \in {m \in MagnitudeInputs : PositiveMin <= m /\ m <= PositiveMax},
                 attribute \in {NoneVal, IntVal(7)} },
             MaxVotes)

\* GET /api/vote on a server that keeps its votes: the votes of the tag,
\* those of the attribute if the request names one
ServerVotes(votes, params) ==
    LET listed == SelectSeq([i \in 1..Len(votes) |-> [n |-> i, vote |-> votes[i]]],
                            LAMBDA v : params.attribute = None
                                       \/ v.vote.payload.attribute = Get(params.attribute))
    IN Some([votes |-> [i \in 1..Len(listed) |->
                 VoteData(Some(listed[i].n), Some(listed[i].vote.payload.left_item_id),
                          Some(listed[i].vote.payload.right_item_id),
                          Some(listed[i].vote.payload.magnitude),
                          Some(listed[i].vote.payload.attribute))]])

-----------------------------------------------------------------------------
(* Sorter.tag: the exists check, the create request, and the server's side *)

\* titles and namespaces are strings, here sequences of characters; "&"
\* is the one character of the inputs that a URL's query reserves
TitleInputs == { <<"a">>, <<"a", "&", "b">> }
NamespaceInputs == { None, Some(<<"n">>) }

\* f"/api/tag/exists?title={title}{namespace_param}": the query of the URL,
\* title and namespace pasted in as they are
TagExistsQuery(title, namespace) ==
    <<"title", "=">> \o title
        \o (IF Truthy(namespace) THEN <<"&", "namespace", "=">> \o Get(namespace) ELSE <<>>)

TagExistsRequest(title, namespace) ==
    [ kind |-> "send", method |-> "GET", path |-> "/api/tag/exists",
      query |-> TagExistsQuery(title, namespace) ]

\* variant: a namespace key is sent whether or not a namespace was given
TagCreatePayloadAlwaysNamespace(title, namespace) ==
    [title |-> title, namespace |-> IF Truthy(namespace) THEN namespace ELSE Some(<<>>)]

\* payload of POST /api/tag (description and unlisted are passed through)
TagCreatePayload(title, namespace) ==
    [title |-> title, namespace |-> IF Truthy(namespace) THEN namespace ELSE None]

TagCreateRequest(title, namespace) ==
    [ kind |-> "send", method |-> "POST", path |-> "/api/tag",
      json |-> TagCreatePayload(title, namespace) ]

\* Tag.__init__: id and title of the data, None for what the data lacks
TagInit(data) ==
    [kind |-> "Tag", id |-> DataGet(data, "id"), title |-> DataGet(data, "title")]

\* the server reads a query as &-separated key=value pieces
RECURSIVE QueryPieces(_)
QueryPieces(query) ==
    IF \A i \in 1..Len(query) : query[i] # "&" THEN <<query>>
    ELSE LET i == CHOOSE j \in 1..Len(query) :
                      query[j] = "&" /\ \A k \in 1..(j - 1) : query[k] # "&"
         IN <<SubSeq(query, 1, i - 1)>> \o QueryPieces(SubSeq(query, i + 1, Len(query)))

IsParam(piece, key) == Len(piece) >= 2 /\ piece[1] = key /\ piece[2] = "="

QueryParam(query, key) ==
    LET pieces == QueryPieces(query)
        hits == {i \in 1..Len(pieces) : IsParam(pieces[i], key)}
    IN IF hits = {} THEN None
       ELSE LET i == CHOOSE j \in hits : \A k \in hits : j <= k
            IN Some(SubSeq(pieces[i], 3, Len(pieces[i])))

TagData(exists, id, title) == Some([exists |-> exists, id |-> id, title |-> title])

\* GET /api/tag/exists on a server that keeps its tags: the first tag with the
\* title and namespace the query names
ServerTagExists(tags, query) ==
    LET hits == {i \in 1..Len(tags) :
                    /\ Some(tags[i].title) = QueryParam(query, "title")
                    /\ tags[i].namespace = QueryParam(query, "namespace")}
    IN IF hits = {} THEN TagData(Some(FALSE), None, None)
       ELSE LET i == CHOOSE j \in hits : \A k \in hits : j <= k
            IN TagData(Some(TRUE), Some(tags[i].id), None)

\* POST /api/tag without an id creates a tag
ServerTagCreate(tags, payload) ==
    Append(tags, [id |-> Len(tags) + 1, title |-> payload.title,
                  namespace |-> payload.namespace])

-----------------------------------------------------------------------------
(* Rankings.__init__ and Rankings.pair *)

ItemIds == {1, 2, 3}

\* the lists of a rankings answer: a tag without items or votes; a vote
\* without a magnitude, two sorted items and one unsorted; a vote, and an
\* item that is in both lists
RankingsListsInputs ==
    { [votes |-> <<>>, sorted |-> <<>>, unsorted |-> <<>>],
      [ votes |-> <<VoteData(Some(1), Some(1), Some(2), None, None)>>,
        sorted |-> <<1, 2>>, unsorted |-> <<3>> ],
      [ votes |-> <<VoteData(Some(1), Some(1), Some(2), Some(75), Some(0))>>,
        sorted |-> <<1, 2>>, unsorted |-> <<2, 3>> ] }

\* what the server may answer to GET /api/tag/page
RankingsAnswers ==
    { Some([pair |-> p, votes |-> l.votes, sorted |-> l.sorted, unsorted |-> l.unsorted]) :
        p \in SeqsUpTo(ItemIds, MaxPair), l \in RankingsListsInputs }

DataList(data, key) == IF data = None THEN <<>> ELSE Get(data)[key]

\* Rankings.__init__: the snapshot, or the error of a Vote that cannot be built
RankingsInit(opts, data) ==
    IF \E i \in 1..Len(DataList(data, "votes")) :
           VoteInit(opts, DataList(data, "votes")[i]).kind = "raise"
    THEN Raise("TypeError")
    ELSE [ kind |-> "Rankings",
           sorted |-> DataList(data, "sorted"),
           unsorted |-> DataList(data, "unsorted"),
           pair |-> DataList(data, "pair"),
           votes |-> [i \in 1..Len(DataList(data, "votes")) |->
                         VoteInit(opts, DataList(data, "votes")[i])] ]

\* variant: the first two items of a pair list that has at least two
RankingsPairFirstTwo(rankings) ==
    IF Len(rankings.pair) < 2 THEN Raise("ValueError")
    ELSE [kind |-> "pair", first |-> rankings.pair[1], second |-> rankings.pair[2]]

\* variant: the pair in the other order
RankingsPairSwapped(rankings) ==
    IF Len(rankings.pair) # 2 THEN Raise("ValueError")
    ELSE [kind |-> "pair", first |-> rankings.pair[2], second |-> rankings.pair[1]]

RankingsPair(rankings) ==
    IF Len(rankings.pair) # 2 THEN Raise("ValueError")
    ELSE [kind |-> "pair", first |-> rankings.pair[1], second |-> rankings.pair[2]]

\* variant: every item is kept
UniqueByIdKeepAll(items) == items

\* list({item.id: item for item in all_items}.values()): one item for each
\* id, in the order the ids first occur (an item of a snapshot is
\* represented by its id)
RECURSIVE UniqueById(_)
UniqueById(items) ==
    IF items = <<>> THEN <<>>
    ELSE LET front == UniqueById(SubSeq(items, 1, Len(items) - 1))
             last == items[Len(items)]
         IN IF \E i \in 1..Len(front) : front[i] = last THEN front
            ELSE Append(front, last)

\* Tag.item() without a title, from the snapshot self.rankings() returned
AllItems(rankings) ==
    [kind |-> "items", items |-> UniqueById(rankings.sorted \o rankings.unsorted)]

\* an attribute title given where an id may be given
TitleVal(title) == [type |-> "str", val |-> title]

\* the attribute and the pinned items a caller of Tag.rankings may give
RankingsAttributeInputs ==
    { NoneVal, IntVal(DefaultAttribute), IntVal(7), TitleVal(<<"A">>) }
PinnedInputs == { None, Some(1) }

\* variant: an attribute id is sent only if it is not 0
RankingsRequestWithTruthy(tag_id, attribute, pinned_left, pinned_right) ==
    [ kind |-> "send", method |-> "GET", path |-> "/api/tag/page",
      params |-> [ id |-> tag_id, elo |-> TRUE,
                   attribute |-> IF attribute = Some(0) THEN None ELSE attribute,
                   pinned_left |-> pinned_left, pinned_right |-> pinned_right ] ]

\* GET /api/tag/page of Tag.rankings: attribute is the id to send, if any; a
\* key that is not set is None here
RankingsRequestWith(tag_id, attribute, pinned_left, pinned_right) ==
    [ kind |-> "send", method |-> "GET", path |-> "/api/tag/page",
      params |-> [ id |-> tag_id, elo |-> TRUE, attribute |-> attribute,
                   pinned_left |-> pinned_left, pinned_right |-> pinned_right ] ]

\* self.rankings()
RankingsRequest(tag_id) == RankingsRequestWith(tag_id, None, None, None)

-----------------------------------------------------------------------------
(* Items: Tag.list_items, Tag.find_item_by_slug, Tag.item,                 *)
(* Tag.get_or_create_item, and the server's side of the feed               *)

\* item titles and slugs are strings, sequences of characters
ItemTitleInputs == { <<"a">>, <<"A">>, <<"A", " ">> }
SlugInputs == { <<"a">>, <<"a", "-">>, <<"b">> }

\* title.lower().replace(' ', '-')
RECURSIVE Slugify(_)
Slugify(title) ==
    IF title = <<>> THEN <<>>
    ELSE << IF Head(title) = " " THEN "-" ELSE IF Head(title) = "A" THEN "a" ELSE Head(title) >>
         \o Slugify(Tail(title))

\* a JSON body that is a list, not a dict
ListBody(xs) == <<"list", xs>>
IsListBody(data) == Len(data) = 2

ItemData(id, title, slug) == Some([id |-> id, title |-> title, slug |-> slug])

\* Item.__init__
ItemInit(data) ==
    [ kind |-> "Item", id |-> DataGet(data, "id"), title |-> DataGet(data, "title"),
      slug |-> DataGet(data, "slug") ]

RECURSIVE ItemsInit(_)
ItemsInit(datas) ==
    IF datas = <<>> THEN <<>> ELSE <<ItemInit(Head(datas))>> \o ItemsInit(Tail(datas))

\* Tag.list_items: GET /api/feed?tag_id={self.id}
FeedRequest(tag_id) ==
    [kind |-> "send", method |-> "GET", path |-> "/api/feed", query |-> [tag_id |-> tag_id]]

\* Tag.list_items, from the answer's data
ListItems(data) ==
    IF IsListBody(data) THEN <<>> ELSE ItemsInit(DataList(data, "items"))

\* next((item for item in items if item.title == title), None)
FindByTitle(items, title) ==
    LET hits == {i \in 1..Len(items) : items[i].title = Some(title)}
    IN IF hits = {} THEN None ELSE Some(items[CHOOSE i \in hits : \A j \in hits : i <= j])

\* variant: the first item, whatever its slug
FindBySlugAny(items, slug) ==
    IF items = <<>> THEN None ELSE Some(items[1])

\* next((item for item in items if item.slug == slug), None)
FindBySlug(items, slug) ==
    LET hits == {i \in 1..Len(items) : items[i].slug = Some(slug)}
    IN IF hits = {} THEN None ELSE Some(items[CHOOSE i \in hits : \A j \in hits : i <= j])

\* variant: the slug is tried before the title
MatchItemSlugFirst(items, title) ==
    IF FindBySlug(items, Slugify(title)) # None THEN FindBySlug(items, Slugify(title))
    ELSE FindByTitle(items, title)

\* variant: by title only
MatchItemTitleOnly(items, title) == FindByTitle(items, title)

\* the existing item of Tag.item and Tag.get_or_create_item: by title, then by slug
MatchItem(items, title) ==
    IF FindByTitle(items, title) # None THEN FindByTitle(items, title)
    ELSE FindBySlug(items, Slugify(title))

\* what a lookup returns: the object found, or None
Found(opt) == IF opt = None THEN [kind |-> "None"] ELSE Get(opt)

\* payload of POST /api/item (body is passed through): the id of the
\* existing item, if there is one
ItemPayload(title, tag_id, existing) ==
    [ title |-> title, tag_id |-> tag_id,
      id |-> IF existing = None THEN None ELSE Get(existing).id ]

ItemRequest(payload) ==
    [kind |-> "send", method |-> "POST", path |-> "/api/item", json |-> payload]

\* Tag.item, from the data of the answer to POST /api/item
ItemResponse(data) ==
    IF IsListBody(data)
    THEN IF data[2] # <<>> THEN ItemInit(data[2][1]) ELSE Raise("ValueError")
    ELSE ItemInit(data)

RECURSIVE ServerItemsData(_)
ServerItemsData(items) ==
    IF items = <<>> THEN <<>>
    ELSE <<ItemData(Some(Head(items).id), Some(Head(items).title), Some(Head(items).slug))>>
         \o ServerItemsData(Tail(items))

\* GET /api/feed on a server that keeps its items; a tag without items may
\* be answered with an empty list
ServerFeed(items) ==
    {Some([items |-> ServerItemsData(items)])}
    \cup (IF items = <<>> THEN {ListBody(<<>>)} ELSE {})

\* POST /api/item: with the id of an item the server has, that item is
\* retitled; otherwise an item is created
ServerItemPost(items, payload) ==
    IF payload.id # None /\ Get(payload.id) \in 1..Len(items)
    THEN [items EXCEPT ![Get(payload.id)].title = payload.title]
    ELSE Append(items, [id |-> Len(items) + 1, title |-> payload.title,
                        slug |-> Slugify(payload.title)])

\* the items tag 1 may hold when the client starts: up to MaxItems items,
\* numbered in order, each with the slug of the title it was created with
ItemFeedInputs ==
    { [i \in 1..Len(titles) |-> [id |-> i, title |-> titles[i], slug |-> Slugify(titles[i])]] :
        titles \in SeqsUpTo(ItemTitleInputs, MaxItems) }

\* the item POST /api/item answers with
ServerPostedItem(items, payload) ==
    LET after == ServerItemPost(items, payload)
        i == IF Len(after) = Len(items) THEN Get(payload.id) ELSE Len(after)
    IN ItemData(Some(after[i].id), Some(after[i].title), Some(after[i].slug))

-----------------------------------------------------------------------------
(* Attributes: Sorter.list_attributes, Sorter.get_attribute,               *)
(* Sorter.attribute, Sorter.create_attribute                               *)

AttributeTitleInputs == { <<"a">>, <<"A">>, <<"b">> }

\* str.lower()
RECURSIVE Lower(_)
Lower(str) ==
    IF str = <<>> THEN <<>>
    ELSE << IF Head(str) = "A" THEN "a" ELSE Head(str) >> \o Lower(Tail(str))

AttributeData(id, title) == Some([id |-> id, title |-> title])

\* Attribute.__init__
AttributeInit(data) ==
    [kind |-> "Attribute", id |-> DataGet(data, "id"), title |-> DataGet(data, "title")]

RECURSIVE AttributesInit(_)
AttributesInit(datas) ==
    IF datas = <<>> THEN <<>>
    ELSE <<AttributeInit(Head(datas))>> \o AttributesInit(Tail(datas))

\* the "attributes" lists GET /api/attribute may answer with: up to
\* MaxAttributes attributes, numbered in order
AttributeListInputs ==
    { [i \in 1..Len(titles) |-> AttributeData(Some(i), Some(titles[i]))] :
        titles \in SeqsUpTo(AttributeTitleInputs, MaxAttributes) }

\* Sorter.get_attribute, from the listed attributes: the first whose title
\* equals the given one ignoring case (None.lower() is an AttributeError)
RECURSIVE GetAttribute(_, _)
GetAttribute(attributes, title) ==
    IF attributes = <<>> THEN [kind |-> "None"]
    ELSE IF Head(attributes).title = None THEN Raise("AttributeError")
    ELSE IF Lower(Get(Head(attributes).title)) = Lower(title) THEN Head(attributes)
    ELSE GetAttribute(Tail(attributes), title)

ListAttributesRequest == [kind |-> "send", method |-> "GET", path |-> "/api/attribute"]

\* f"/api/attribute/exists?title={title}"
AttributeExistsRequest(title) ==
    [ kind |-> "send", method |-> "GET", path |-> "/api/attribute/exists",
      query |-> <<"title", "=">> \o title ]

\* f"/api/attribute?id={response.get('id')}"
AttributeFetchRequest(id) ==
    [kind |-> "send", method |-> "GET", path |-> "/api/attribute", query |-> [id |-> id]]

\* Sorter.create_attribute (description is passed through)
AttributeCreateRequest(title) ==
    [kind |-> "send", method |-> "POST", path |-> "/api/attribute", json |-> [title |-> title]]

\* what GET /api/attribute/exists may answer: exists with or without an id,
\* or does not exist
AttributeExistsAnswers ==
    { Some([exists |-> Some(TRUE), id |-> Some(3)]), Some([exists |-> Some(TRUE), id |-> None]),
      Some([exists |-> Some(FALSE), id |-> None]) }

-----------------------------------------------------------------------------
(* API version compatibility: _is_version_compatible and the health check  *)
(* of Sorter.__init__                                                      *)

\* version strings are sequences of characters
Digits == {"0", "1", "2"}
VersionChars == {"1", "2", ".", "x"}

\* the versions a health answer may name: every string up to MaxVersionLen
VersionInputs == SeqsUpTo(VersionChars, MaxVersionLen)

\* the lists of patterns _get_compatible_versions may return
CompatibleVersionsInputs ==
    { <<DefaultCompatibleVersion>>, << <<"2", ".", "1">> >>,
      << <<"1", ".", "1", ".", "1">>, <<"2">> >>, <<>> }

\* s.split(sep)
RECURSIVE Split(_, _)
Split(s, sep) ==
    IF \A i \in 1..Len(s) : s[i] # sep THEN <<s>>
    ELSE LET i == CHOOSE j \in 1..Len(s) : s[j] = sep /\ \A k \in 1..(j - 1) : s[k] # sep
         IN <<SubSeq(s, 1, i - 1)>> \o Split(SubSeq(s, i + 1, Len(s)), sep)

\* re.match(r'^\d+', part): the digits the part starts with, <<>> for no match
RECURSIVE LeadingDigits(_)
LeadingDigits(part) ==
    IF part = <<>> \/ part[1] \notin Digits THEN <<>>
    ELSE <<part[1]>> \o LeadingDigits(Tail(part))

\* int(digits)
DigitValue(c) == IF c = "0" THEN 0 ELSE IF c = "1" THEN 1 ELSE 2

RECURSIVE ToInt(_)
ToInt(digits) ==
    IF digits = <<>> THEN 0
    ELSE 10 * ToInt(SubSeq(digits, 1, Len(digits) - 1)) + DigitValue(digits[Len(digits)])

\* the numeric start of each part that has one, in order
RECURSIVE CleanedParts(_)
CleanedParts(parts) ==
    IF parts = <<>> THEN <<>>
    ELSE (IF LeadingDigits(Head(parts)) = <<>> THEN <<>> ELSE <<LeadingDigits(Head(parts))>>)
         \o CleanedParts(Tail(parts))

\* the loop over api_parts stops at three numeric parts; "Pad with zeros"
ApiParts(api_version) ==
    LET cleaned == CleanedParts(Split(api_version, "."))
        three == IF Len(cleaned) >= 3 THEN SubSeq(cleaned, 1, 3) ELSE cleaned
        padded == three \o [i \in 1..(3 - Len(three)) |-> <<"0">>]
    IN [i \in 1..3 |-> ToInt(padded[i])]

\* variant: a major version pattern that matches counts as a full match
PatternMatchMajorFull(api, version) ==
    LET cleaned == CleanedParts(Split(version, "."))
        pattern == [i \in 1..Len(cleaned) |-> ToInt(cleaned[i])]
    IN IF Len(pattern) = 1 THEN (IF api[1] = pattern[1] THEN 2 ELSE 0)
       ELSE IF Len(pattern) = 2
            THEN (IF api[1] = pattern[1] /\ api[2] = pattern[2] THEN 2 ELSE 0)
       ELSE IF Len(pattern) = 3
            THEN (IF api[1] = pattern[1] /\ api[2] = pattern[2] /\ api[3] = pattern[3]
                  THEN 2 ELSE 0)
       ELSE 0

\* 0: the pattern does not match; 1: it matches as a major version; 2: it
\* matches as major.minor or as major.minor.patch
PatternMatch(api, version) ==
    LET cleaned == CleanedParts(Split(version, "."))
        pattern == [i \in 1..Len(cleaned) |-> ToInt(cleaned[i])]
    IN IF Len(pattern) = 1 THEN (IF api[1] = pattern[1] THEN 1 ELSE 0)
       ELSE IF Len(pattern) = 2
            THEN (IF api[1] = pattern[1] /\ api[2] = pattern[2] THEN 2 ELSE 0)
       ELSE IF Len(pattern) = 3
            THEN (IF api[1] = pattern[1] /\ api[2] = pattern[2] /\ api[3] = pattern[3]
                  THEN 2 ELSE 0)
       ELSE 0

\* _is_version_compatible: (fully_compatible, partially_compatible, matched_pattern)
is_version_compatible(api_version, compatible_versions) ==
    LET api == ApiParts(api_version)
        hits == {i \in 1..Len(compatible_versions) : PatternMatch(api, compatible_versions[i]) # 0}
    IN [ fully_compatible |->
             \E i \in 1..Len(compatible_versions) : PatternMatch(api, compatible_versions[i]) = 2,
         partially_compatible |->
             \E i \in 1..Len(compatible_versions) : PatternMatch(api, compatible_versions[i]) = 1,
         matched_pattern |->
             IF hits = {} THEN None
             ELSE Some(compatible_versions[CHOOSE i \in hits : \A j \in hits : j <= i]) ]

\* the lists of patterns _is_version_compatible may be called with: those
\* above, and patterns with a 0, a suffix, or four parts
PatternListInputs ==
    CompatibleVersionsInputs
    \cup { << <<"2", ".", "0">> >>, << <<"2">>, <<"2", ".", "0", ".", "0">> >>,
           << <<"2", ".", "1", "x">>, <<"1">> >>, << <<"1", ".", "1", ".", "1", ".", "1">> >> }

\* what GET /api/health may do: the transport fails, or an answer arrives
\* whose body is not JSON, has no version, or has a version that is a string
\* or a number
HealthInputs ==
    {[kind |-> "transport_error"]}
    \cup { [kind |-> "response", status |-> st, body |-> b] :
             st \in StatusInputs,
             b \in {[json |-> FALSE], [json |-> TRUE, version |-> None],
                    [json |-> TRUE, version |-> Some([type |-> "int", val |-> 2])]}
                   \cup { [json |-> TRUE, version |-> Some([type |-> "str", val |-> v])] :
                            v \in VersionInputs } }

\* the values the compatibility_warnings option may have
WarningsInputs == {"True", "False", "None"}

Logged(level) == [kind |-> "log", level |-> level]

\* the try block of _check_api_compatibility: what it logs, or what it raises
CheckApiCompatibilityTry(compatibility_warnings, compatible_versions, health) ==
    IF health.kind = "transport_error" THEN Raise("TransportError")
    ELSE IF health.status # HealthOk THEN Logged("none")
    ELSE IF ~health.body.json THEN Raise("JSONDecodeError")
    ELSE IF health.body.version = None THEN Logged("none")
    ELSE IF Get(health.body.version).type # "str" THEN Raise("AttributeError")
    ELSE IF Get(health.body.version).val = <<>> THEN Logged("none")
    ELSE LET c == is_version_compatible(Get(health.body.version).val, compatible_versions)
         IN IF c.fully_compatible THEN Logged("debug")
            ELSE IF compatibility_warnings = "True" THEN Logged("warning")
            ELSE Logged("debug")

\* variant: an error of the health check is not caught
CheckApiCompatibilityUncaught(compatibility_warnings, compatible_versions, health) ==
    CheckApiCompatibilityTry(compatibility_warnings, compatible_versions, health)

\* _check_api_compatibility once the health request is out: except Exception
CheckApiCompatibility(compatibility_warnings, compatible_versions, health) ==
    IF CheckApiCompatibilityTry(compatibility_warnings, compatible_versions, health).kind = "raise"
    THEN Logged("debug")
    ELSE CheckApiCompatibilityTry(compatibility_warnings, compatible_versions, health)

HealthRequest == [kind |-> "send", method |-> "GET", path |-> "/api/health"]

-----------------------------------------------------------------------------
(* The state machine *)

\* Sorter.__init__: the defaults, updated with the options the caller gave
Init ==
    /\ options \in {OptionsUpdate(DefaultOptions, kwargs) : kwargs \in OptionKwargs}
    /\ pc = "idle"
    /\ call = NoCall
    /\ sent = <<>>
    /\ replies = <<>>
    /\ result = NoResult
    /\ prev = NoPrev
    /\ server_tags = <<>>
    /\ server_items = <<>>
    /\ server_votes = <<>>
    /\ log_level = ConfigureLogging(options)

Reply(status, data) == [status |-> status, data |-> data]

AllOk(rs) == \A i \in 1..Len(rs) : IsSuccess(rs[i].status)

\* an operation that raised before sending anything, or sent its first request
Started(c, outcome, waiting) ==
    /\ call' = c
    /\ replies' = <<>>
    /\ IF outcome.kind = "raise"
       THEN /\ result' = outcome
            /\ sent' = <<>>
            /\ pc' = "done"
       ELSE /\ result' = NoResult
            /\ sent' = <<outcome>>
            /\ pc' = waiting

\* Sorter.options(**kwargs)
Options ==
    /\ pc \notin {"new", "health", "done", "held"}
    /\ \E kwargs \in OptionKwargs :
        /\ options' = OptionsUpdate(options, kwargs)
        /\ log_level' = IF kwargs.verbose # None \/ kwargs.quiet # None
                        THEN ConfigureLogging(OptionsUpdate(options, kwargs))
                        ELSE log_level
        /\ UNCHANGED <<pc, call, sent, replies, result, prev, server_tags, server_items, server_votes>>

\* tag.vote(left, x, y, attribute) on the tag with id self_id
TagVoteCall ==
    /\ pc = "idle"
    /\ \E self_id \in TagIds, left \in LeftInputs, x \in PositionalInputs,
          y \in PositionalInputs, attribute \in AttributeInputs :
        /\ Started([ op |-> "Tag.vote", self_id |-> self_id, left |-> left, x |-> x,
                     y |-> y, attribute |-> attribute, scale |-> options.vote_magnitude ],
                   TagVote(options, self_id, left, x, y, attribute), "vote")
        /\ UNCHANGED <<options, prev, server_tags, server_items, server_votes, log_level>>

\* sorter.vote(left, x, y, attribute)
SorterVoteCall ==
    /\ pc = "idle"
    /\ \E left \in LeftInputs, x \in PositionalInputs,
          y \in PositionalInputs, attribute \in AttributeInputs :
        /\ Started([ op |-> "Sorter.vote", self_id |-> 0, left |-> left, x |-> x,
                     y |-> y, attribute |-> attribute, scale |-> options.vote_magnitude ],
                   SorterVote(options, left, x, y, attribute), "vote")
        /\ UNCHANGED <<options, prev, server_tags, server_items, server_votes, log_level>>

\* the answer to POST /api/vote arrives: _request, then Vote(tag, response)
VoteRespond ==
    /\ pc = "vote"
    /\ \E status \in StatusInputs :
      \E data \in (IF IsSuccess(status) THEN VoteAnswers(sent[1].json) ELSE {None}) :
        /\ replies' = Append(replies, Reply(status, data))
        /\ result' = IF Request(options, status, data).kind = "raise"
                     THEN Request(options, status, data)
                     ELSE VoteInit(options, Request(options, status, data).data)
        /\ pc' = "done"
        /\ UNCHANGED <<options, call, sent, prev, server_tags, server_items, server_votes, log_level>>

\* sorter.tag(title, namespace=namespace): the exists check is sent
TagCall ==
    /\ pc = "idle"
    /\ \E title \in TitleInputs, namespace \in NamespaceInputs :
        /\ Started([op |-> "Sorter.tag", title |-> title, namespace |-> namespace],
                   TagExistsRequest(title, namespace), "tag_exists")
        /\ UNCHANGED <<options, prev, server_tags, server_items, server_votes, log_level>>

\* the answer to GET /api/tag/exists arrives: return the tag, or send the create
TagExistsRespond ==
    \E status \in StatusInputs :
        LET data == IF IsSuccess(status) THEN ServerTagExists(server_tags, sent[1].query)
                    ELSE None
            out == Request(options, status, data)
        IN /\ pc = "tag_exists"
           /\ replies' = Append(replies, Reply(status, data))
           /\ IF out.kind = "raise"
              THEN /\ result' = out
                   /\ pc' = "done"
                   /\ sent' = sent
              ELSE IF DataGet(out.data, "exists") = Some(TRUE)
              THEN /\ result' = TagInit(out.data)
                   /\ pc' = "done"
                   /\ sent' = sent
              ELSE /\ result' = NoResult
                   /\ pc' = "tag_create"
                   /\ sent' = Append(sent, TagCreateRequest(call.title, call.namespace))
           /\ UNCHANGED <<options, call, prev, server_tags, server_items, server_votes, log_level>>

\* the answer to POST /api/tag arrives: the server has created the tag, or refused
TagCreateRespond ==
    \E status \in StatusInputs :
        LET created == ServerTagCreate(server_tags, sent[2].json)
            data == IF IsSuccess(status)
                    THEN TagData(None, Some(created[Len(created)].id),
                                 Some(created[Len(created)].title))
                    ELSE None
            out == Request(options, status, data)
        IN /\ pc = "tag_create"
           /\ IsSuccess(status) => Len(server_tags) < MaxTags
           /\ replies' = Append(replies, Reply(status, data))
           /\ server_tags' = IF IsSuccess(status) THEN created ELSE server_tags
           /\ result' = IF out.kind = "raise" THEN out ELSE TagInit(out.data)
           /\ pc' = "done"
           /\ UNCHANGED <<options, call, sent, prev, server_items, server_votes, log_level>>

\* tag.pair(): self.rankings() sends GET /api/tag/page
PairCall ==
    /\ pc = "idle"
    /\ \E self_id \in TagIds :
        /\ Started([op |-> "Tag.pair", self_id |-> self_id], RankingsRequest(self_id), "pair")
        /\ UNCHANGED <<options, prev, server_tags, server_items, server_votes, log_level>>

\* the answer arrives: Rankings(self, response).pair()
PairRespond ==
    \E status \in StatusInputs :
      \E data \in (IF IsSuccess(status) THEN RankingsAnswers ELSE {None}) :
        LET out == Request(options, status, data)
        IN /\ pc = "pair"
           /\ replies' = Append(replies, Reply(status, data))
           /\ result' = IF out.kind = "raise" THEN out
                        ELSE IF RankingsInit(options, out.data).kind = "raise"
                        THEN RankingsInit(options, out.data)
                        ELSE RankingsPair(RankingsInit(options, out.data))
           /\ pc' = "done"
           /\ UNCHANGED <<options, call, sent, prev, server_tags, server_items, server_votes, log_level>>

\* tag.rankings(attribute, pinned_left, pinned_right): GET /api/tag/page, after
\* the GET /api/attribute of get_attribute when the attribute is a title
RankingsCall ==
    /\ pc = "idle"
    /\ \E self_id \in TagIds, attribute \in RankingsAttributeInputs,
          pinned_left \in PinnedInputs, pinned_right \in PinnedInputs :
        /\ Started([ op |-> "Tag.rankings", self_id |-> self_id, attribute |-> attribute,
                     pinned_left |-> pinned_left, pinned_right |-> pinned_right ],
                   IF attribute.type = "str" THEN ListAttributesRequest
                   ELSE RankingsRequestWith(self_id,
                            IF attribute.type = "None" THEN None ELSE Some(attribute.val),
                            pinned_left, pinned_right),
                   IF attribute.type = "str" THEN "rankings_attribute" ELSE "rankings")
        /\ UNCHANGED <<options, prev, server_tags, server_items, server_votes, log_level>>

\* the list of attributes arrives: GET /api/tag/page goes out, with the id
\* of the attribute that has the title if there is one
RankingsAttributeRespond ==
    /\ pc = "rankings_attribute"
    /\ \E status \in StatusInputs :
      \E data \in (IF IsSuccess(status)
                   THEN {Some([attributes |-> l]) : l \in AttributeListInputs}
                   ELSE {None}) :
        LET out == Request(options, status, data)
            attr_obj == GetAttribute(AttributesInit(DataList(out.data, "attributes")),
                                     call.attribute.val)
        IN /\ replies' = Append(replies, Reply(status, data))
           /\ IF out.kind = "raise"
              THEN /\ result' = out
                   /\ pc' = "done"
                   /\ sent' = sent
              ELSE IF attr_obj.kind = "raise"
              THEN /\ result' = attr_obj
                   /\ pc' = "done"
                   /\ sent' = sent
              ELSE /\ result' = NoResult
                   /\ pc' = "rankings"
                   /\ sent' = Append(sent,
                          RankingsRequestWith(call.self_id,
                              IF attr_obj.kind = "None" THEN None ELSE attr_obj.id,
                              call.pinned_left, call.pinned_right))
           /\ UNCHANGED <<options, call, prev, server_tags, server_items, server_votes, log_level>>

\* the answer arrives: Rankings(self, response) is returned
RankingsRespond ==
    /\ pc = "rankings"
    /\ \E status \in StatusInputs :
      \E data \in (IF IsSuccess(status) THEN RankingsAnswers ELSE {None}) :
        LET out == Request(options, status, data)
        IN /\ replies' = Append(replies, Reply(status, data))
           /\ result' = IF out.kind = "raise" THEN out ELSE RankingsInit(options, out.data)
           /\ pc' = "done"
           /\ UNCHANGED <<options, call, sent, prev, server_tags, server_items, server_votes, log_level>>

\* tag.item() without a title, on tag 1: self.rankings() sends GET /api/tag/page
AllItemsCall ==
    /\ pc = "idle"
    /\ Started([op |-> "Tag.item()", self_id |-> 1], RankingsRequest(1), "all_items")
    /\ UNCHANGED <<options, prev, server_tags, server_items, server_votes, log_level>>

\* the answer arrives: the sorted and the unsorted items of the snapshot
\* are returned, one for each id
AllItemsRespond ==
    /\ pc = "all_items"
    /\ \E status \in StatusInputs :
      \E data \in (IF IsSuccess(status) THEN RankingsAnswers ELSE {None}) :
        LET out == Request(options, status, data)
        IN /\ replies' = Append(replies, Reply(status, data))
           /\ result' = IF out.kind = "raise" THEN out
                        ELSE IF RankingsInit(options, out.data).kind = "raise"
                        THEN RankingsInit(options, out.data)
                        ELSE AllItems(RankingsInit(options, out.data))
           /\ pc' = "done"
           /\ UNCHANGED <<options, call, sent, prev, server_tags, server_items, server_votes, log_level>>

\* rankings.pair() on the snapshot that tag.rankings() has just returned
RankingsPairCall ==
    /\ pc = "done"
    /\ call.op = "Tag.rankings"
    /\ result.kind = "Rankings"
    /\ call' = [op |-> "Rankings.pair", rankings |-> result]
    /\ result' = RankingsPair(result)
    /\ sent' = <<>>
    /\ replies' = <<>>
    /\ UNCHANGED <<options, pc, prev, server_tags, server_items, server_votes, log_level>>

\* tag.votes(until, attribute, user, since) on tag 1: GET /api/vote
VotesCall ==
    /\ pc = "idle"
    /\ \E until \in VotesStringInputs, attribute \in VotesAttributeInputs,
          user \in VotesStringInputs, since \in VotesStringInputs :
        /\ Started([ op |-> "Tag.votes", self_id |-> 1, until |-> until,
                     attribute |-> attribute, user |-> user, since |-> since ],
                   VotesRequest(VotesParams(1, until, attribute, user, since)), "votes")
        /\ UNCHANGED <<options, prev, server_tags, server_items, server_votes, log_level>>

\* the answer arrives: a Vote is built from each vote listed
VotesRespond ==
    /\ pc = "votes"
    /\ \E status \in StatusInputs :
        LET data == IF IsSuccess(status) THEN ServerVotes(server_votes, sent[1].params)
                    ELSE None
            out == Request(options, status, data)
        IN /\ replies' = Append(replies, Reply(status, data))
           /\ result' = IF out.kind = "raise" THEN out
                        ELSE VotesInit(options, DataList(out.data, "votes"))
           /\ pc' = "done"
           /\ UNCHANGED <<options, call, sent, prev, server_tags, server_items,
                          server_votes, log_level>>

\* sorter.options(vote_magnitude=scale) while the caller holds the votes that
\* tag.votes() has just returned: the objects are what they were
VotesHeldOptions ==
    /\ pc = "done"
    /\ call.op = "Tag.votes"
    /\ result.kind = "Votes"
    /\ \E kwargs \in {k \in OptionKwargs : k.vote_magnitude # None} :
        /\ options' = OptionsUpdate(options, kwargs)
        /\ log_level' = IF kwargs.verbose # None \/ kwargs.quiet # None
                        THEN ConfigureLogging(OptionsUpdate(options, kwargs))
                        ELSE log_level
    /\ pc' = "held"
    /\ UNCHANGED <<call, sent, replies, result, prev, server_tags, server_items, server_votes>>

\* sorter._convert_magnitude_to_backend(magnitude)
ConvertCall ==
    /\ pc = "idle"
    /\ \E magnitude \in AllMagnitudes :
        /\ call' = [ op |-> "convert", magnitude |-> magnitude,
                     scale |-> options.vote_magnitude,
                     backend |-> convert_magnitude_to_backend(options, magnitude) ]
        /\ result' = NoResult
        /\ sent' = <<>>
        /\ replies' = <<>>
        /\ pc' = "convert"
        /\ UNCHANGED <<options, prev, server_tags, server_items, server_votes, log_level>>

\* sorter._convert_magnitude_from_backend(backend) on the value just converted
ConvertBack ==
    /\ pc = "convert"
    /\ result' = [ kind |-> "converted", scale |-> options.vote_magnitude,
                   value |-> convert_magnitude_from_backend(options, Some(call.backend)).value ]
    /\ pc' = "done"
    /\ UNCHANGED <<options, call, sent, replies, prev, server_tags, server_items, server_votes, log_level>>

\* what a caller passes to _request, and the JSON bodies an answer may carry
RequestInputs ==
    { [kind |-> "send", method |-> m, path |-> p] :
        m \in {"GET", "POST"}, p \in {"/api/tag", "/api/attribute"} }
BodyInputs == { Some([id |-> Some(1)]), Some([id |-> None]) }

\* sorter._request(method, path): the request goes out
RequestCall ==
    /\ pc = "idle"
    /\ \E request \in RequestInputs :
        /\ Started([op |-> "_request", quiet |-> options.quiet], request, "request")
        /\ UNCHANGED <<options, prev, server_tags, server_items, server_votes, log_level>>

\* the answer arrives: raise_for_status, response.json(), the quiet check
RequestRespond ==
    /\ pc = "request"
    /\ \E status \in StatusInputs, data \in BodyInputs :
        /\ replies' = Append(replies, Reply(status, data))
        /\ result' = Request(options, status, data)
        /\ pc' = "done"
        /\ UNCHANGED <<options, call, sent, prev, server_tags, server_items, server_votes, log_level>>

\* tag.find_item_by_slug(slug) on tag 1: list_items sends GET /api/feed
FindItemBySlugCall ==
    /\ pc = "idle"
    /\ \E slug \in SlugInputs :
        /\ Started([op |-> "Tag.find_item_by_slug", self_id |-> 1, slug |-> slug],
                   FeedRequest(1), "feed")
        /\ UNCHANGED <<options, prev, server_tags, server_items, server_votes, log_level>>

\* tag.get_or_create_item(title) on tag 1: list_items sends GET /api/feed
GetOrCreateItemCall ==
    /\ pc = "idle"
    /\ \E title \in ItemTitleInputs :
        /\ Started([op |-> "Tag.get_or_create_item", self_id |-> 1, title |-> title],
                   FeedRequest(1), "feed")
        /\ UNCHANGED <<options, prev, server_tags, server_items, server_votes, log_level>>

\* tag.item(title) on tag 1: list_items sends GET /api/feed
ItemCall ==
    /\ pc = "idle"
    /\ \E title \in ItemTitleInputs :
        /\ Started([op |-> "Tag.item", self_id |-> 1, title |-> title],
                   FeedRequest(1), "item_feed")
        /\ UNCHANGED <<options, prev, server_tags, server_items, server_votes, log_level>>

\* the feed answers find_item_by_slug or get_or_create_item: the item found
\* is returned; get_or_create_item without a match goes on to self.item(),
\* which lists the items again
FeedRespond ==
    /\ pc = "feed"
    /\ \E status \in StatusInputs :
      \E data \in (IF IsSuccess(status) THEN ServerFeed(server_items) ELSE {None}) :
        LET out == Request(options, status, data)
            found == IF call.op = "Tag.find_item_by_slug"
                     THEN FindBySlug(ListItems(out.data), call.slug)
                     ELSE MatchItem(ListItems(out.data), call.title)
        IN /\ replies' = Append(replies, Reply(status, data))
           /\ IF out.kind = "raise"
              THEN /\ result' = out
                   /\ pc' = "done"
                   /\ sent' = sent
              ELSE IF call.op = "Tag.find_item_by_slug" \/ found # None
              THEN /\ result' = Found(found)
                   /\ pc' = "done"
                   /\ sent' = sent
              ELSE /\ result' = NoResult
                   /\ pc' = "item_feed"
                   /\ sent' = Append(sent, FeedRequest(call.self_id))
           /\ UNCHANGED <<options, call, prev, server_tags, server_items, server_votes, log_level>>

\* the feed answers Tag.item: POST /api/item goes out, with the id of the
\* existing item if one matches
ItemFeedRespond ==
    /\ pc = "item_feed"
    /\ \E status \in StatusInputs :
      \E data \in (IF IsSuccess(status) THEN ServerFeed(server_items) ELSE {None}) :
        LET out == Request(options, status, data)
        IN /\ replies' = Append(replies, Reply(status, data))
           /\ IF out.kind = "raise"
              THEN /\ result' = out
                   /\ pc' = "done"
                   /\ sent' = sent
              ELSE /\ result' = NoResult
                   /\ pc' = "item_post"
                   /\ sent' = Append(sent,
                          ItemRequest(ItemPayload(call.title, call.self_id,
                                          MatchItem(ListItems(out.data), call.title))))
           /\ UNCHANGED <<options, call, prev, server_tags, server_items, server_votes, log_level>>

\* the answer to POST /api/item arrives: the server has stored the item (and
\* answers with it, or with a list that holds it or is empty), or refused
ItemPostRespond ==
    /\ pc = "item_post"
    /\ \E status \in StatusInputs :
        LET payload == sent[Len(sent)].json
            after == ServerItemPost(server_items, payload)
            posted == ServerPostedItem(server_items, payload)
        IN /\ IsSuccess(status) => Len(after) <= MaxItems
           /\ \E data \in (IF IsSuccess(status)
                           THEN {posted, ListBody(<<posted>>), ListBody(<<>>)}
                           ELSE {None}) :
                LET out == Request(options, status, data)
                IN /\ replies' = Append(replies, Reply(status, data))
                   /\ result' = IF out.kind = "raise" THEN out ELSE ItemResponse(out.data)
           /\ server_items' = IF IsSuccess(status) THEN after ELSE server_items
           /\ pc' = "done"
           /\ UNCHANGED <<options, call, sent, prev, server_tags, server_votes, log_level>>

\* sorter.get_attribute(title): list_attributes sends GET /api/attribute
GetAttributeCall ==
    /\ pc = "idle"
    /\ \E title \in AttributeTitleInputs :
        /\ Started([op |-> "Sorter.get_attribute", title |-> title],
                   ListAttributesRequest, "list_attributes")
        /\ UNCHANGED <<options, prev, server_tags, server_items, server_votes, log_level>>

\* the list of attributes arrives: the one with the title, or None
ListAttributesRespond ==
    /\ pc = "list_attributes"
    /\ \E status \in StatusInputs :
      \E data \in (IF IsSuccess(status)
                   THEN {Some([attributes |-> l]) : l \in AttributeListInputs}
                   ELSE {None}) :
        LET out == Request(options, status, data)
        IN /\ replies' = Append(replies, Reply(status, data))
           /\ result' = IF out.kind = "raise" THEN out
                        ELSE GetAttribute(AttributesInit(DataList(out.data, "attributes")),
                                          call.title)
           /\ pc' = "done"
           /\ UNCHANGED <<options, call, sent, prev, server_tags, server_items, server_votes, log_level>>

\* sorter.attribute(title): the exists check is sent
AttributeCall ==
    /\ pc = "idle"
    /\ \E title \in AttributeTitleInputs :
        /\ Started([op |-> "Sorter.attribute", title |-> title],
                   AttributeExistsRequest(title), "attribute_exists")
        /\ UNCHANGED <<options, prev, server_tags, server_items, server_votes, log_level>>

\* the answer to the exists check arrives: fetch the attribute by id if it
\* exists and has an id; create it otherwise, an HTTP error included
AttributeExistsRespond ==
    /\ pc = "attribute_exists"
    /\ \E status \in StatusInputs :
      \E data \in (IF IsSuccess(status) THEN AttributeExistsAnswers ELSE {None}) :
        LET out == Request(options, status, data)
        IN /\ replies' = Append(replies, Reply(status, data))
           /\ IF /\ out.kind # "raise"
                 /\ DataGet(out.data, "exists") = Some(TRUE)
                 /\ DataGet(out.data, "id") # None
              THEN /\ sent' = Append(sent, AttributeFetchRequest(Get(DataGet(out.data, "id"))))
                   /\ pc' = "attribute_fetch"
              ELSE /\ sent' = Append(sent, AttributeCreateRequest(call.title))
                   /\ pc' = "attribute_create"
           /\ UNCHANGED <<options, call, result, prev, server_tags, server_items, server_votes, log_level>>

\* the answer to the fetch by id arrives: the first attribute of the answer
\* is returned; with none, or with an HTTP error, the attribute is created
AttributeFetchRespond ==
    /\ pc = "attribute_fetch"
    /\ \E status \in StatusInputs :
      \E data \in (IF IsSuccess(status)
                   THEN { Some([attributes |-> <<>>]),
                          Some([attributes |-> <<AttributeData(Some(sent[2].query.id),
                                                               Some(call.title))>>]) }
                   ELSE {None}) :
        LET out == Request(options, status, data)
        IN /\ replies' = Append(replies, Reply(status, data))
           /\ IF out.kind # "raise" /\ DataList(out.data, "attributes") # <<>>
              THEN /\ result' = AttributeInit(DataList(out.data, "attributes")[1])
                   /\ sent' = sent
                   /\ pc' = "done"
              ELSE /\ result' = NoResult
                   /\ sent' = Append(sent, AttributeCreateRequest(call.title))
                   /\ pc' = "attribute_create"
           /\ UNCHANGED <<options, call, prev, server_tags, server_items, server_votes, log_level>>

\* the answer to POST /api/attribute arrives
AttributeCreateRespond ==
    /\ pc = "attribute_create"
    /\ \E status \in StatusInputs :
      \E data \in (IF IsSuccess(status) THEN {AttributeData(Some(4), Some(call.title))}
                   ELSE {None}) :
        LET out == Request(options, status, data)
        IN /\ replies' = Append(replies, Reply(status, data))
           /\ result' = IF out.kind = "raise" THEN out ELSE AttributeInit(out.data)
           /\ pc' = "done"
           /\ UNCHANGED <<options, call, sent, prev, server_tags, server_items, server_votes, log_level>>

\* before Sorter(api_key, options=...) is called: no client yet
InitNew ==
    /\ options = DefaultOptions
    /\ pc = "new"
    /\ call = NoCall
    /\ sent = <<>>
    /\ replies = <<>>
    /\ result = NoResult
    /\ prev = NoPrev
    /\ server_tags = <<>>
    /\ server_items = <<>>
    /\ server_votes = <<>>
    /\ log_level = DefaultLogLevel

\* Sorter.__init__: the defaults are updated with the caller's options, and
\* the health request goes out unless compatibility_warnings is False
SorterInitCall ==
    /\ pc = "new"
    /\ \E kwargs \in OptionKwargs, compatibility_warnings \in WarningsInputs,
          compatible_versions \in CompatibleVersionsInputs :
        /\ options' = OptionsUpdate(options, kwargs)
        /\ call' = [ op |-> "Sorter.__init__", options |-> OptionsUpdate(options, kwargs),
                     compatibility_warnings |-> compatibility_warnings,
                     compatible_versions |-> compatible_versions ]
        /\ replies' = <<>>
        /\ IF compatibility_warnings = "False"
           THEN /\ sent' = <<>>
                /\ result' = [kind |-> "Sorter", check |-> Logged("debug")]
                /\ pc' = "done"
           ELSE /\ sent' = <<HealthRequest>>
                /\ result' = NoResult
                /\ pc' = "health"
        /\ log_level' = ConfigureLogging(OptionsUpdate(options, kwargs))
        /\ UNCHANGED <<prev, server_tags, server_items, server_votes>>

\* the health request is over: _check_api_compatibility, then __init__ returns
HealthRespond ==
    /\ pc = "health"
    /\ \E health \in HealthInputs :
        LET check == CheckApiCompatibility(call.compatibility_warnings,
                                           call.compatible_versions, health)
        IN /\ replies' = Append(replies, health)
           /\ result' = IF check.kind = "raise" THEN check
                        ELSE [kind |-> "Sorter", check |-> check]
           /\ pc' = "done"
           /\ UNCHANGED <<options, call, sent, prev, server_tags, server_items, server_votes, log_level>>

\* _is_version_compatible(api_version, compatible_versions)
VersionCall ==
    /\ pc = "idle"
    /\ \E api_version \in VersionInputs, compatible_versions \in PatternListInputs :
        /\ call' = [ op |-> "_is_version_compatible", api_version |-> api_version,
                     compatible_versions |-> compatible_versions ]
        /\ result' = [ kind |-> "compatibility",
                       value |-> is_version_compatible(api_version, compatible_versions) ]
        /\ sent' = <<>>
        /\ replies' = <<>>
        /\ pc' = "done"
        /\ UNCHANGED <<options, prev, server_tags, server_items, server_votes, log_level>>

\* the operation returns or raises to its caller; the client is idle again
Return ==
    /\ pc \in {"done", "held"}
    /\ pc' = "idle"
    /\ prev' = IF call.op = "Sorter.tag"
               THEN [ valid |-> TRUE, op |-> call.op, title |-> call.title,
                      namespace |-> call.namespace,
                      result |-> result, ok |-> AllOk(replies) ]
               ELSE IF call.op = "Tag.get_or_create_item"
               THEN [ valid |-> TRUE, op |-> call.op, title |-> call.title,
                      namespace |-> None,
                      result |-> result, ok |-> AllOk(replies) ]
               ELSE NoPrev
    /\ call' = NoCall
    /\ sent' = <<>>
    /\ replies' = <<>>
    /\ result' = NoResult
    /\ UNCHANGED <<options, server_tags, server_items, server_votes, log_level>>

Next ==
    \/ Options
    \/ TagVoteCall \/ SorterVoteCall \/ VoteRespond
    \/ TagCall \/ TagExistsRespond \/ TagCreateRespond
    \/ PairCall \/ PairRespond
    \/ RankingsCall \/ RankingsAttributeRespond \/ RankingsRespond \/ RankingsPairCall
    \/ AllItemsCall \/ AllItemsRespond
    \/ VotesCall \/ VotesRespond \/ VotesHeldOptions
    \/ ConvertCall \/ ConvertBack
    \/ RequestCall \/ RequestRespond
    \/ SorterInitCall \/ HealthRespond \/ VersionCall
    \/ FindItemBySlugCall \/ GetOrCreateItemCall \/ ItemCall
    \/ FeedRespond \/ ItemFeedRespond \/ ItemPostRespond
    \/ GetAttributeCall \/ ListAttributesRespond
    \/ AttributeCall \/ AttributeExistsRespond \/ AttributeFetchRespond
    \/ AttributeCreateRespond
    \/ Return

Spec == Init /\ [][Next]_vars

\* the client used for one family of operations
NextVote == Options \/ TagVoteCall \/ SorterVoteCall \/ VoteRespond \/ Return
SpecVote == Init /\ [][NextVote]_vars

\* the same client, created without options: the scale is "equal" until
\* options() sets another
InitDefault ==
    /\ options = DefaultOptions
    /\ pc = "idle"
    /\ call = NoCall
    /\ sent = <<>>
    /\ replies = <<>>
    /\ result = NoResult
    /\ prev = NoPrev
    /\ server_tags = <<>>
    /\ server_items = <<>>
    /\ server_votes = <<>>
    /\ log_level = ConfigureLogging(options)

SpecScale == InitDefault /\ [][NextVote]_vars

NextTag == Options \/ TagCall \/ TagExistsRespond \/ TagCreateRespond \/ Return
SpecTag == Init /\ [][NextTag]_vars

NextPair ==
    \/ Options
    \/ PairCall \/ PairRespond
    \/ RankingsCall \/ RankingsAttributeRespond \/ RankingsRespond \/ RankingsPairCall
    \/ AllItemsCall \/ AllItemsRespond
    \/ Return
SpecPair == Init /\ [][NextPair]_vars

\* the same client on a tag whose votes the server holds
InitVotes ==
    /\ options \in {OptionsUpdate(DefaultOptions, kwargs) : kwargs \in OptionKwargs}
    /\ pc = "idle"
    /\ call = NoCall
    /\ sent = <<>>
    /\ replies = <<>>
    /\ result = NoResult
    /\ prev = NoPrev
    /\ server_tags = <<>>
    /\ server_items = <<>>
    /\ server_votes \in ServerVotesInputs
    /\ log_level = ConfigureLogging(options)

NextVotes == Options \/ VotesCall \/ VotesRespond \/ VotesHeldOptions \/ Return
SpecVotes == InitVotes /\ [][NextVotes]_vars

NextConvert == Options \/ ConvertCall \/ ConvertBack \/ Return
SpecConvert == Init /\ [][NextConvert]_vars

NextItem ==
    \/ Options
    \/ FindItemBySlugCall \/ GetOrCreateItemCall \/ ItemCall
    \/ FeedRespond \/ ItemFeedRespond \/ ItemPostRespond
    \/ Return

\* the same client on a tag that already has items
InitItems ==
    /\ options \in {OptionsUpdate(DefaultOptions, kwargs) : kwargs \in OptionKwargs}
    /\ pc = "idle"
    /\ call = NoCall
    /\ sent = <<>>
    /\ replies = <<>>
    /\ result = NoResult
    /\ prev = NoPrev
    /\ server_tags = <<>>
    /\ server_items \in ItemFeedInputs
    /\ server_votes = <<>>
    /\ log_level = ConfigureLogging(options)

SpecItem == InitItems /\ [][NextItem]_vars

NextAttribute ==
    \/ Options
    \/ GetAttributeCall \/ ListAttributesRespond
    \/ AttributeCall \/ AttributeExistsRespond \/ AttributeFetchRespond
    \/ AttributeCreateRespond
    \/ Return
SpecAttribute == Init /\ [][NextAttribute]_vars

\* the client used for lookups and get-or-create of items and attributes
NextLookup == NextItem \/ NextAttribute
SpecLookup == Init /\ [][NextLookup]_vars

NextConstruct == SorterInitCall \/ HealthRespond \/ Options \/ Return
SpecConstruct == InitNew /\ [][NextConstruct]_vars

NextVersion == Options \/ VersionCall \/ Return
SpecVersion == Init /\ [][NextVersion]_vars

NextRequest == Options \/ RequestCall \/ RequestRespond \/ Return
SpecRequest == Init /\ [][NextRequest]_vars

-----------------------------------------------------------------------------
(* What the properties below read off a vote call: its magnitude and the   *)
(* range of the scale that was active when it was made                     *)

IsVoteCall == call.op \in {"Tag.vote", "Sorter.vote"}

\* the call's arguments are (Item, int, Item) or (Item, Item, int)
VoteArgsFit ==
    /\ call.left.type = "Item"
    /\ \/ call.x.type = "int" /\ call.y.type = "Item"
       \/ call.x.type = "Item" /\ call.y.type = "int"

VoteMagnitudeArg == IF call.x.type = "int" THEN call.x.val ELSE call.y.val

InScaleRange(scale, m) ==
    IF scale = "equal" THEN m \in (-50)..50 ELSE m \in 0..100

-----------------------------------------------------------------------------
(* Properties *)

\* C1: for every integer m in the range of the active scale, converting m to
\* the backend scale and back, the same scale being active at both steps,
\* returns m.
C1_RoundTrip ==
    ( /\ pc = "done"
      /\ call.op = "convert"
      /\ result.scale = call.scale
      /\ InScaleRange(call.scale, call.magnitude) )
    => result.value = Some(call.magnitude)

C1_Witness ==
    /\ pc = "done"
    /\ call.op = "convert"
    /\ call.scale = "equal"
    /\ result.scale = "equal"
    /\ call.magnitude = -50
    /\ call.backend = 0
    /\ result.value = Some(-50)

\* C2: a vote call (Tag.vote or Sorter.vote, arguments of the types the
\* signature names) whose magnitude is outside the range of the active scale
\* raises ValueError, and no request is sent for it.
C2_OutOfRangeRaises ==
    ( /\ pc # "idle"
      /\ IsVoteCall
      /\ VoteArgsFit
      /\ ~InScaleRange(call.scale, VoteMagnitudeArg) )
    => ( /\ pc = "done"
         /\ result = Raise("ValueError")
         /\ sent = <<>>
         /\ replies = <<>> )

C2_Witness ==
    /\ pc = "done"
    /\ call.op = "Tag.vote"
    /\ VoteArgsFit
    /\ call.left.tag = call.self_id
    /\ call.y.type = "Item"
    /\ call.y.tag = call.self_id
    /\ call.scale = "positive"
    /\ VoteMagnitudeArg = -1
    /\ result = Raise("ValueError")
    /\ sent = <<>>

\* C3: every POST /api/vote request that was sent carries a magnitude in
\* 0..100, whatever option changes and vote calls came before.
C3_BackendRange ==
    \A i \in 1..Len(sent) :
        (sent[i].method = "POST" /\ sent[i].path = "/api/vote")
        => sent[i].json.magnitude \in 0..100

C3_Witness ==
    /\ pc = "vote"
    /\ call.op = "Sorter.vote"
    /\ call.scale = "equal"
    /\ options.vote_magnitude = "positive"
    /\ VoteMagnitudeArg = 50
    /\ sent[1].path = "/api/vote"
    /\ sent[1].json.magnitude = 100

C5_SameTagTwice ==
    ( /\ pc = "done"
      /\ call.op = "Sorter.tag"
      /\ AllOk(replies)
      /\ prev.valid
      /\ prev.ok
      /\ prev.title = call.title
      /\ prev.namespace = call.namespace )
    => ( /\ result.kind = "Tag"
         /\ prev.result.kind = "Tag"
         /\ result.id = prev.result.id
         /\ Len(sent) = 1 )

\* C6: Rankings.pair() on a snapshot with exactly 2 pair items returns them
\* in the order of the response; on a snapshot with 0 pair items it raises
\* ValueError.
C6_SnapshotBuilt ==
    /\ IsSuccess(replies[1].status) \/ options.quiet
    /\ ~( /\ options.vote_magnitude = "equal"
          /\ IsSuccess(replies[1].status)
          /\ \E i \in 1..Len(Get(replies[1].data).votes) :
                 Get(Get(replies[1].data).votes[i]).magnitude = None )

C6_SnapshotPair ==
    IF IsSuccess(replies[1].status) THEN Get(replies[1].data).pair ELSE <<>>

C6_Pair ==
    ( /\ pc = "done"
      /\ call.op = "Tag.pair"
      /\ C6_SnapshotBuilt )
    => /\ Len(C6_SnapshotPair) = 2
          => result = [ kind |-> "pair", first |-> C6_SnapshotPair[1],
                        second |-> C6_SnapshotPair[2] ]
       /\ Len(C6_SnapshotPair) = 0 => result = Raise("ValueError")

C6_Witness ==
    /\ pc = "done"
    /\ call.op = "Tag.pair"
    /\ C6_SnapshotBuilt
    /\ IsSuccess(replies[1].status)
    /\ C6_SnapshotPair = <<3, 1>>
    /\ result.kind = "pair"
    /\ result.first = 3
    /\ result.second = 1

\* C7: with quiet mode on, a lookup of a tag by title whose exists check is
\* answered with HTTP 500 yields None: the call is over and returns None.
C7_QuietLookupNone ==
    [][ ( /\ pc = "tag_exists"
          /\ options.quiet
          /\ Len(replies') = 1
          /\ replies'[1].status = 500 )
        => ( /\ pc' = "done"
             /\ result'.kind = "None" ) ]_vars

\* C8: a vote recorded without an attribute argument sends attribute 0.
C8_DefaultAttribute ==
    ( /\ pc \in {"vote", "done"}
      /\ IsVoteCall
      /\ call.attribute.type = "None"
      /\ Len(sent) = 1 )
    => sent[1].json.attribute = 0

C8_Witness ==
    /\ pc = "vote"
    /\ call.op = "Sorter.vote"
    /\ call.attribute.type = "None"
    /\ Len(sent) = 1
    /\ sent[1].path = "/api/vote"
    /\ sent[1].json.attribute = 0

\* C9: in _request an answer with a non-2xx status raises an HTTP status error
\* when quiet is off and returns an empty result, raising nothing, when quiet
\* is on; quiet is read when the answer is handled, not when the request went out.
C9_RequestError ==
    ( /\ pc = "done"
      /\ call.op = "_request"
      /\ ~IsSuccess(replies[1].status) )
    => /\ ~options.quiet => result = Raise("HTTPStatusError")
       /\ options.quiet => result = [kind |-> "ok", data |-> None]

C9_Witness ==
    /\ pc = "done"
    /\ call.op = "_request"
    /\ replies[1].status = 500
    /\ ~call.quiet
    /\ options.quiet
    /\ result = [kind |-> "ok", data |-> None]

\* C10: with quiet mode on, a vote call with valid arguments whose POST
\* /api/vote is answered with a non-2xx status raises nothing, under either
\* scale.
C10_QuietVoteNoRaise ==
    ( /\ pc = "done"
      /\ IsVoteCall
      /\ Len(replies) = 1
      /\ ~IsSuccess(replies[1].status)
      /\ options.quiet )
    => result.kind # "raise"

\* the right item of a vote call whose arguments fit
VoteRightArg == IF call.x.type = "Item" THEN call.x ELSE call.y

\* an item of the call belongs to another tag than the one the vote is for
VoteOtherTag ==
    IF call.op = "Tag.vote"
    THEN call.left.tag # call.self_id \/ VoteRightArg.tag # call.self_id
    ELSE call.left.tag # VoteRightArg.tag

\* C11: with quiet mode on, a vote call whose arguments fit neither ordering,
\* whose magnitude is outside the range of the active scale, or whose items
\* belong to another tag raises, and no request is sent for it.
C11_QuietValidationRaises ==
    ( /\ pc # "idle"
      /\ IsVoteCall
      /\ options.quiet
      /\ \/ ~(\/ call.x.type = "int" /\ call.y.type = "Item"
              \/ call.x.type = "Item" /\ call.y.type = "int")
         \/ VoteArgsFit /\ ~InScaleRange(call.scale, VoteMagnitudeArg)
         \/ VoteArgsFit /\ VoteOtherTag )
    => ( /\ pc = "done"
         /\ result.kind = "raise"
         /\ sent = <<>>
         /\ replies = <<>> )

C11_Witness ==
    /\ pc = "done"
    /\ call.op = "Tag.vote"
    /\ options.quiet
    /\ VoteArgsFit
    /\ ~VoteOtherTag
    /\ call.scale = "equal"
    /\ VoteMagnitudeArg = 51
    /\ result = Raise("ValueError")
    /\ sent = <<>>

\* the options as they were when the call in progress was made: of the
\* options a vote reads before it sends, only the scale
C12_CallOptions == [options EXCEPT !.vote_magnitude = call.scale]

\* the same call with magnitude and right item in the other order
C12_Swapped ==
    IF call.op = "Tag.vote"
    THEN TagVote(C12_CallOptions, call.self_id, call.left, call.y, call.x, call.attribute)
    ELSE SorterVote(C12_CallOptions, call.left, call.y, call.x, call.attribute)

\* C12: for items l and r of one tag, every integer magnitude m and every
\* attribute, vote(l, m, r) and vote(l, r, m) raise the same error or send
\* the same payload, and the result built from the answer does not depend on
\* the order.
C12_EitherOrder ==
    ( /\ pc # "idle"
      /\ IsVoteCall
      /\ VoteArgsFit
      /\ call.left.tag = VoteRightArg.tag )
    => IF C12_Swapped.kind = "raise"
       THEN pc = "done" /\ sent = <<>> /\ result = C12_Swapped
       ELSE /\ sent = <<C12_Swapped>>
            /\ pc = "done" =>
                 result = IF Request(options, replies[1].status, replies[1].data).kind = "raise"
                          THEN Raise("HTTPStatusError")
                          ELSE VoteInit(options,
                                   Request(options, replies[1].status, replies[1].data).data)

C12_Witness ==
    /\ pc = "done"
    /\ call.op = "Tag.vote"
    /\ VoteArgsFit
    /\ call.x.type = "Item"
    /\ call.left.tag = call.self_id
    /\ call.x.tag = call.self_id
    /\ call.y.val = 50
    /\ call.scale = "positive"
    /\ Len(sent) = 1
    /\ sent[1].json.magnitude = 50
    /\ sent[1].json.right_item_id = call.x.id
    /\ result.kind = "Vote"

\* C13: a vote call (arguments of the types the signature names) raises
\* ValueError and sends no request when, for Tag.vote, the left or the right
\* item belongs to another tag than the one the vote is called on and, for
\* Sorter.vote, the two items belong to different tags.
C13_OtherTagRaises ==
    ( /\ pc # "idle"
      /\ IsVoteCall
      /\ VoteArgsFit
      /\ VoteOtherTag )
    => ( /\ pc = "done"
         /\ result = Raise("ValueError")
         /\ sent = <<>>
         /\ replies = <<>> )

C13_Witness ==
    /\ pc = "done"
    /\ call.op = "Sorter.vote"
    /\ VoteArgsFit
    /\ call.left.tag = 1
    /\ VoteRightArg.tag = 2
    /\ InScaleRange(call.scale, VoteMagnitudeArg)
    /\ call.attribute.type = "None"
    /\ result = Raise("ValueError")
    /\ sent = <<>>

\* C14: a vote call raises TypeError and sends no request whenever its
\* positional arguments are not (Item, int, Item) or (Item, Item, int), the
\* left argument not being an Item included, and whenever the attribute is
\* neither None, an int nor an Attribute.
C14_BadTypesRaiseTypeError ==
    ( /\ pc # "idle"
      /\ IsVoteCall
      /\ \/ ~VoteArgsFit
         \/ call.attribute.type \notin {"None", "int", "Attribute"} )
    => ( /\ pc = "done"
         /\ result = Raise("TypeError")
         /\ sent = <<>> )

\* C15: constructing a Sorter always completes, whatever the health request
\* does (transport failure, a status other than 200, a body that is not JSON
\* or has no version, a version that matches no pattern or is malformed):
\* the constructor returns the client, and the options are those the
\* constructor set from its arguments.
C15_ConstructionCompletes ==
    ( /\ pc = "done"
      /\ call.op = "Sorter.__init__" )
    => ( /\ result.kind = "Sorter"
         /\ options = call.options )

C15_Witness ==
    /\ pc = "done"
    /\ call.op = "Sorter.__init__"
    /\ call.compatibility_warnings = "True"
    /\ call.compatible_versions = <<DefaultCompatibleVersion>>
    /\ Len(replies) = 1
    /\ replies[1].kind = "response"
    /\ replies[1].status = 200
    /\ replies[1].body.json
    /\ replies[1].body.version = Some([type |-> "str", val |-> <<"x", ".", "1">>])
    /\ result = [kind |-> "Sorter", check |-> Logged("warning")]
    /\ options = call.options

\* C16: within one client operation no HTTP request is sent twice; in
\* particular a request that was answered with an error is not sent again.
C16_NoRequestTwice ==
    \A i, j \in 1..Len(sent) :
        ( /\ i # j
          /\ sent[i].method = sent[j].method
          /\ sent[i].path = sent[j].path )
        => sent[i] # sent[j]

\* the attributes, and the items, that the answer to the lookup's request lists
C17_ListedAttributes ==
    IF IsSuccess(replies[1].status) THEN Get(replies[1].data).attributes ELSE <<>>

C17_ListedItems ==
    IF IsSuccess(replies[1].status) /\ ~IsListBody(replies[1].data)
    THEN Get(replies[1].data).items
    ELSE <<>>

\* C17: a lookup whose request did not raise and that finds nothing returns
\* None, raises nothing and sends no create request: get_attribute(title)
\* when no listed attribute has the title (ignoring case), find_item_by_slug(slug)
\* when no item of the feed has the slug.
C17_LookupNone ==
    /\ ( /\ pc = "done"
         /\ call.op = "Sorter.get_attribute"
         /\ IsSuccess(replies[1].status) \/ options.quiet
         /\ \A i \in 1..Len(C17_ListedAttributes) :
                Lower(Get(Get(C17_ListedAttributes[i]).title)) # Lower(call.title) )
       => ( /\ result.kind = "None"
            /\ Len(sent) = 1
            /\ sent[1].method = "GET" )
    /\ ( /\ pc = "done"
         /\ call.op = "Tag.find_item_by_slug"
         /\ IsSuccess(replies[1].status) \/ options.quiet
         /\ \A i \in 1..Len(C17_ListedItems) :
                Get(C17_ListedItems[i]).slug # Some(call.slug) )
       => ( /\ result.kind = "None"
            /\ Len(sent) = 1
            /\ sent[1].method = "GET" )

C17_Witness ==
    /\ pc = "done"
    /\ call.op = "Tag.find_item_by_slug"
    /\ call.slug = <<"b">>
    /\ Len(replies) = 1
    /\ replies[1].status = 200
    /\ Len(C17_ListedItems) = 2
    /\ result.kind = "None"
    /\ Len(sent) = 1

\* C18: on a client created with the default scale, the scale changes only
\* in options() calls, and a vote call is range-checked and converted with
\* the scale that is set when the call is made, the latest one: within the
\* range of that scale the request carries the magnitude converted with it,
\* outside it the call raises ValueError.
C18_LatestScale ==
    [][ /\ options'.vote_magnitude # options.vote_magnitude
           => (pc' = pc /\ call' = call /\ sent' = sent /\ result' = result)
        /\ ( /\ pc = "idle"
             /\ pc' # "idle"
             /\ call'.op \in {"Tag.vote", "Sorter.vote"}
             /\ call'.left.type = "Item"
             /\ \/ call'.x.type = "int" /\ call'.y.type = "Item"
                \/ call'.x.type = "Item" /\ call'.y.type = "int"
             /\ call'.left.tag = (IF call'.x.type = "Item" THEN call'.x ELSE call'.y).tag
             /\ call'.op = "Tag.vote" => call'.left.tag = call'.self_id
             /\ call'.attribute.type \in {"None", "int", "Attribute"} )
           => LET m == IF call'.x.type = "int" THEN call'.x.val ELSE call'.y.val
              IN IF InScaleRange(options.vote_magnitude, m)
                 THEN /\ pc' = "vote"
                      /\ sent'[1].json.magnitude =
                             IF options.vote_magnitude = "equal" THEN m + 50 ELSE m
                 ELSE /\ pc' = "done"
                      /\ result' = Raise("ValueError")
                      /\ sent' = <<>> ]_vars

C18_Witness ==
    /\ pc = "vote"
    /\ call.op = "Tag.vote"
    /\ VoteArgsFit
    /\ options.vote_magnitude = "positive"
    /\ call.scale = "positive"
    /\ VoteMagnitudeArg = 100
    /\ Len(sent) = 1
    /\ sent[1].json.magnitude = 100

\* the answer to the GET /api/tag/page of Tag.rankings, its last request
C19_Answer == replies[Len(replies)]

\* C19: a rankings answer whose pair list has a length other than 0 or 2
\* (and whose votes all carry a magnitude) is built into a snapshot that
\* keeps the answer's sorted and unsorted lists, and pair() on that snapshot
\* raises ValueError.
C19_OddPair ==
    /\ ( /\ pc = "done"
         /\ call.op = "Tag.rankings"
         /\ Len(replies) = Len(sent)
         /\ sent[Len(sent)].path = "/api/tag/page"
         /\ IsSuccess(C19_Answer.status)
         /\ Len(Get(C19_Answer.data).pair) \notin {0, 2}
         /\ \A i \in 1..Len(Get(C19_Answer.data).votes) :
                Get(Get(C19_Answer.data).votes[i]).magnitude # None )
       => ( /\ result.kind = "Rankings"
            /\ result.sorted = Get(C19_Answer.data).sorted
            /\ result.unsorted = Get(C19_Answer.data).unsorted
            /\ result.pair = Get(C19_Answer.data).pair )
    /\ ( /\ pc = "done"
         /\ call.op = "Rankings.pair"
         /\ Len(call.rankings.pair) \notin {0, 2} )
       => result = Raise("ValueError")

C19_Witness ==
    /\ pc = "done"
    /\ call.op = "Rankings.pair"
    /\ call.rankings.pair = <<1, 2, 3>>
    /\ call.rankings.sorted = <<1, 2>>
    /\ call.rankings.unsorted = <<3>>
    /\ result = Raise("ValueError")

\* C20: Sorter.tag sends POST /api/tag only after an exists check that did
\* not report the tag as existing.  When the check reports exists=true, no
\* create request is sent and the tag returned has the id the check gave;
\* when it reports that the tag does not exist, exactly one create request
\* is sent, with the title, and with a namespace only if one was given.
C20_CreateOnlyIfMissing ==
    ( /\ call.op = "Sorter.tag"
      /\ pc # "idle" )
    => /\ \A i \in 1..Len(sent) :
              sent[i].method = "POST"
              => ( /\ i = 2
                   /\ Len(replies) >= 1
                   /\ DataGet(replies[1].data, "exists") # Some(TRUE) )
       /\ ( /\ Len(replies) >= 1
            /\ IsSuccess(replies[1].status) )
          => IF DataGet(replies[1].data, "exists") = Some(TRUE)
             THEN /\ pc = "done"
                  /\ Len(sent) = 1
                  /\ result.kind = "Tag"
                  /\ result.id = DataGet(replies[1].data, "id")
             ELSE /\ pc \in {"tag_create", "done"}
                  /\ Len(sent) = 2
                  /\ sent[2].method = "POST"
                  /\ sent[2].path = "/api/tag"
                  /\ sent[2].json.title = call.title
                  /\ sent[2].json.namespace = call.namespace

C20_Witness ==
    /\ pc = "done"
    /\ call.op = "Sorter.tag"
    /\ call.title = <<"a">>
    /\ call.namespace = Some(<<"n">>)
    /\ Len(replies) = 1
    /\ replies[1].status = 200
    /\ DataGet(replies[1].data, "exists") = Some(TRUE)
    /\ Len(sent) = 1
    /\ result.kind = "Tag"
    /\ result.id = Some(2)

\* C21: whenever the exists check of Sorter.attribute reports exists=true, no
\* POST /api/attribute is sent and the attribute returned has the id the
\* check gave, whatever the fetch by id answers.
C21_ExistingNotCreated ==
    ( /\ call.op = "Sorter.attribute"
      /\ Len(replies) >= 1
      /\ IsSuccess(replies[1].status)
      /\ DataGet(replies[1].data, "exists") = Some(TRUE) )
    => /\ \A i \in 1..Len(sent) : sent[i].method # "POST"
       /\ pc = "done" => ( /\ result.kind = "Attribute"
                           /\ result.id = DataGet(replies[1].data, "id") )

\* the items the first feed answer of the operation lists (none when the
\* request failed quietly)
C22_FeedItems ==
    IF IsSuccess(replies[1].status) THEN ListItems(replies[1].data) ELSE <<>>

C22_TitleIds ==
    {C22_FeedItems[i].id : i \in {j \in 1..Len(C22_FeedItems) :
                                    C22_FeedItems[j].title = Some(call.title)}}

C22_SlugIds ==
    {C22_FeedItems[i].id : i \in {j \in 1..Len(C22_FeedItems) :
                                    C22_FeedItems[j].slug = Some(Slugify(call.title))}}

\* C22: Tag.item(title), once the feed request did not raise, sends one POST
\* /api/item; its payload carries the id of an item of the feed with that
\* exact title if there is one, otherwise the id of an item whose slug is
\* the slugified title if there is one, otherwise no id.
C22_ItemPayloadId ==
    ( /\ call.op = "Tag.item"
      /\ Len(replies) >= 1
      /\ IsSuccess(replies[1].status) \/ Len(sent) = 2 )
    => /\ Len(sent) = 2
       /\ sent[2].method = "POST"
       /\ sent[2].path = "/api/item"
       /\ sent[2].json.title = call.title
       /\ IF C22_TitleIds # {} THEN sent[2].json.id \in C22_TitleIds
          ELSE IF C22_SlugIds # {} THEN sent[2].json.id \in C22_SlugIds
          ELSE sent[2].json.id = None

C22_Witness ==
    /\ call.op = "Tag.item"
    /\ call.title = <<"A">>
    /\ pc = "item_post"
    /\ replies[1].status = 200
    /\ C22_TitleIds = {Some(2)}
    /\ C22_SlugIds = {Some(1), Some(2)}
    /\ sent[2].json.id = Some(2)

\* the item of the first feed answer that get_or_create_item matches
C23_Matching ==
    {i \in 1..Len(C22_FeedItems) :
        \/ C22_FeedItems[i].title = Some(call.title)
        \/ C22_FeedItems[i].slug = Some(Slugify(call.title))}

C23_NoPost == \A i \in 1..Len(sent) : sent[i].method # "POST"

\* C23: get_or_create_item(title) returns an item of the feed and sends no
\* POST /api/item when the feed has an item matching the title or its slug;
\* against a server that keeps the items it creates, two calls in a row with
\* the same title (all requests answered with success, both returning an
\* item) return the same item id, and the second call creates nothing.
C23_GetOrCreate ==
    /\ ( /\ pc = "done"
         /\ call.op = "Tag.get_or_create_item"
         /\ IsSuccess(replies[1].status)
         /\ C23_Matching # {} )
       => ( /\ result.kind = "Item"
            /\ \E i \in C23_Matching : result = C22_FeedItems[i]
            /\ Len(sent) = 1
            /\ C23_NoPost )
    /\ ( /\ pc = "done"
         /\ call.op = "Tag.get_or_create_item"
         /\ AllOk(replies)
         /\ prev.valid
         /\ prev.op = "Tag.get_or_create_item"
         /\ prev.ok
         /\ prev.result.kind = "Item"
         /\ prev.title = call.title )
       => ( /\ result.kind = "Item"
            /\ result.id = prev.result.id
            /\ C23_NoPost )

C23_Witness ==
    /\ pc = "done"
    /\ call.op = "Tag.get_or_create_item"
    /\ call.title = <<"A", " ">>
    /\ AllOk(replies)
    /\ prev.valid
    /\ prev.op = "Tag.get_or_create_item"
    /\ prev.ok
    /\ prev.title = call.title
    /\ prev.result.kind = "Item"
    /\ prev.result.id = Some(2)
    /\ Len(server_items) = 2
    /\ server_items[1].title = <<"a">>
    /\ server_items[2].title = <<"A", " ">>
    /\ result.id = Some(2)
    /\ Len(sent) = 1

\* the ids in the sorted and unsorted lists of the rankings answer
C24_TagItemIds ==
    IF IsSuccess(replies[1].status)
    THEN { Get(replies[1].data).sorted[i] : i \in 1..Len(Get(replies[1].data).sorted) }
         \cup { Get(replies[1].data).unsorted[i] : i \in 1..Len(Get(replies[1].data).unsorted) }
    ELSE {}

\* C24: Tag.item() without a title, when it returns, returns every item id
\* of the rankings' sorted or unsorted list exactly once and nothing else.
C24_AllItemsOnce ==
    ( /\ pc = "done"
      /\ call.op = "Tag.item()"
      /\ result.kind # "raise" )
    => /\ result.kind = "items"
       /\ \A id \in C24_TagItemIds :
            Cardinality({i \in 1..Len(result.items) : result.items[i] = id}) = 1
       /\ \A i \in 1..Len(result.items) : result.items[i] \in C24_TagItemIds

C24_Witness ==
    /\ pc = "done"
    /\ call.op = "Tag.item()"
    /\ replies[1].status = 200
    /\ Get(replies[1].data).sorted = <<1, 2>>
    /\ Get(replies[1].data).unsorted = <<2, 3>>
    /\ result = [kind |-> "items", items |-> <<1, 2, 3>>]

\* C25: the request of Tag.votes carries every filter the caller gave, the
\* attribute id 0 included, and nothing but the tag id when none was given.
C25_FiltersCarried ==
    ( /\ call.op = "Tag.votes"
      /\ Len(sent) >= 1 )
    => /\ sent[1].method = "GET"
       /\ sent[1].path = "/api/vote"
       /\ sent[1].params = [ tag |-> call.self_id, until |-> call.until,
                             attribute |-> call.attribute, user |-> call.user,
                             since |-> call.since ]

\* the magnitude a vote recorded with magnitude m under one scale has under
\* another
C28_Reported(recorded_scale, m, scale) ==
    IF recorded_scale = scale THEN m
    ELSE IF scale = "positive" THEN m + 50
    ELSE m - 50

\* C28: each Vote that Tag.votes builds has the magnitude of the recorded
\* vote under the scale set when the answer arrives (a vote recorded with m
\* under "equal" and listed under "positive" has m + 50), and an options()
\* call that sets the scale afterwards leaves the votes held unchanged.
C28_MagnitudeFixed ==
    [][ /\ ( /\ pc' = "done"
             /\ call'.op = "Tag.votes"
             /\ Len(replies') = 1
             /\ IsSuccess(replies'[1].status) )
           => /\ result'.kind = "Votes"
              /\ \A i \in 1..Len(result'.votes) :
                   LET recorded == server_votes[Get(result'.votes[i].id)]
                   IN result'.votes[i].magnitude =
                        Some(C28_Reported(recorded.scale, recorded.given,
                                          options'.vote_magnitude))
        /\ pc' = "held" => result' = result ]_vars

C28_Witness ==
    /\ pc = "held"
    /\ call.op = "Tag.votes"
    /\ options.vote_magnitude = "equal"
    /\ Len(server_votes) = 1
    /\ server_votes[1].scale = "equal"
    /\ server_votes[1].given = -50
    /\ Len(result.votes) = 1
    /\ result.votes[1].magnitude = Some(0)

\* the attributes that the answer to the GET /api/attribute of
\* Tag.rankings(attribute=title) lists, and those with the title
C26_Listed ==
    IF IsSuccess(replies[1].status) THEN Get(replies[1].data).attributes ELSE <<>>

C26_Titled ==
    {i \in 1..Len(C26_Listed) :
        Lower(Get(Get(C26_Listed[i]).title)) = Lower(call.attribute.val)}

\* C26: the GET /api/tag/page of Tag.rankings carries the attribute id given
\* (0 included); for a title, the id of the first listed attribute with that
\* title ignoring case, and no attribute when there is none, in which case
\* the request is still sent and its snapshot returned; pinned_left and
\* pinned_right are carried exactly when given.
C26_RankingsParams ==
    /\ ( /\ call.op = "Tag.rankings"
         /\ Len(sent) >= 1
         /\ sent[Len(sent)].path = "/api/tag/page" )
       => LET params == sent[Len(sent)].params
          IN /\ params.id = call.self_id
             /\ params.pinned_left = call.pinned_left
             /\ params.pinned_right = call.pinned_right
             /\ call.attribute.type = "None" => params.attribute = None
             /\ call.attribute.type = "int" => params.attribute = Some(call.attribute.val)
             /\ call.attribute.type = "str" =>
                  /\ Len(sent) = 2
                  /\ IF C26_Titled = {} THEN params.attribute = None
                     ELSE params.attribute =
                            Get(C26_Listed[CHOOSE i \in C26_Titled :
                                             \A j \in C26_Titled : i <= j]).id
    /\ ( /\ call.op = "Tag.rankings"
         /\ call.attribute.type = "str"
         /\ Len(replies) >= 1
         /\ IsSuccess(replies[1].status) )
       => /\ Len(sent) = 2
          /\ sent[2].path = "/api/tag/page"
          /\ ( /\ pc = "done"
               /\ IsSuccess(replies[2].status)
               /\ \A i \in 1..Len(Get(replies[2].data).votes) :
                      Get(Get(replies[2].data).votes[i]).magnitude # None )
             => result.kind = "Rankings"

C26_Witness ==
    /\ pc = "done"
    /\ call.op = "Tag.rankings"
    /\ call.attribute = TitleVal(<<"A">>)
    /\ call.pinned_left = Some(1)
    /\ call.pinned_right = None
    /\ Len(replies) = 2
    /\ replies[1].status = 200
    /\ replies[1].data = Some([attributes |-> << AttributeData(Some(1), Some(<<"a">>)),
                                                  AttributeData(Some(2), Some(<<"A">>)) >>])
    /\ sent[2].params = [ id |-> call.self_id, elo |-> TRUE, attribute |-> Some(1),
                          pinned_left |-> Some(1), pinned_right |-> None ]
    /\ result.kind = "Rankings"

\* C27: once the client is constructed, and after every options() call, the
\* log level is WARNING if quiet is set, otherwise DEBUG if verbose is set,
\* otherwise INFO; so a call that names neither key leaves it as it is.
C27_LogLevel ==
    pc # "new" =>
        log_level = IF options.quiet THEN "WARNING"
                    ELSE IF options.verbose THEN "DEBUG"
                    ELSE "INFO"

C27_Witness ==
    /\ pc = "idle"
    /\ options.quiet
    /\ options.verbose
    /\ options.vote_magnitude = "positive"
    /\ log_level = "WARNING"

\* the same vote made the other way: sorter.vote(l, x, y, a) for a call of
\* l.tag.vote(l, x, y, a), and l.tag.vote(l, x, y, a) for a call of sorter.vote
C29_OtherWay ==
    IF call.op = "Tag.vote"
    THEN SorterVote(C12_CallOptions, call.left, call.x, call.y, call.attribute)
    ELSE TagVote(C12_CallOptions, call.left.tag, call.left, call.x, call.y, call.attribute)

\* C29: for an item l, sorter.vote(l, x, y, a) and l.tag.vote(l, x, y, a)
\* raise the same error or send the same POST /api/vote, under every option
\* state and for all x, y and a, and the Vote they return is built from the
\* answer in the same way.
C29_SameVote ==
    ( /\ pc # "idle"
      /\ IsVoteCall
      /\ IsItem(call.left)
      /\ call.op = "Tag.vote" => call.self_id = call.left.tag )
    => IF C29_OtherWay.kind = "raise"
       THEN pc = "done" /\ sent = <<>> /\ result = C29_OtherWay
       ELSE /\ sent = <<C29_OtherWay>>
            /\ pc = "done" =>
                 result = IF IsSuccess(replies[1].status)
                          THEN VoteInit(options, replies[1].data)
                          ELSE IF options.quiet THEN VoteInit(options, None)
                          ELSE Raise("HTTPStatusError")

C29_Witness ==
    /\ pc = "done"
    /\ call.op = "Sorter.vote"
    /\ call.left = ItemVal(3, 2)
    /\ call.x = ItemVal(3, 2)
    /\ call.y = IntVal(100)
    /\ call.attribute = AttributeVal(3)
    /\ call.scale = "positive"
    /\ sent = <<TagVote(C12_CallOptions, 2, call.left, call.x, call.y, call.attribute)>>
    /\ sent[1].json = [ left_item_id |-> 3, right_item_id |-> 3, magnitude |-> 100,
                        tag_id |-> 2, attribute |-> 3 ]
    /\ replies[1].status = 200
    /\ result.kind = "Vote"

\* the numeric parts of a version string, as numbers
C30_Numbers(version) ==
    LET cleaned == CleanedParts(Split(version, "."))
    IN [i \in 1..Len(cleaned) |-> ToInt(cleaned[i])]

\* major, minor and patch of the version the call was given: its first three
\* numeric parts, 0 for those it does not have
C30_Api ==
    [i \in 1..3 |-> IF i <= Len(C30_Numbers(call.api_version))
                    THEN C30_Numbers(call.api_version)[i] ELSE 0]

C30_Full(pattern) ==
    \/ Len(C30_Numbers(pattern)) = 2 /\ C30_Numbers(pattern) = <<C30_Api[1], C30_Api[2]>>
    \/ Len(C30_Numbers(pattern)) = 3 /\ C30_Numbers(pattern) = C30_Api

C30_Partial(pattern) ==
    Len(C30_Numbers(pattern)) = 1 /\ C30_Numbers(pattern)[1] = C30_Api[1]

=============================================================================
